---- MODULE Spec2Model ----
(***************************************************************************)
(* hello-cloud: the Zone scheduler (elements.js), the counter Datastore    *)
(* (datastore.js, counterdata.js), the HTTP transport (HttpTransport) and  *)
(* the DatastoreSync engine (client/network/sync.js), wired the way the    *)
(* counter application wires them:                                         *)
(*     new DatastoreSync(counterData, notOp(isViewSource)).start()         *)
(*                                                                         *)
(* JavaScript is single threaded and runs every event-loop task to         *)
(* completion.  A task is one of: a user click, a direct setValue() from   *)
(* an event handler, a setTimeout() callback (Zone.processQueues, the      *)
(* delayed startSync, the transport's timeout) or an XMLHttpRequest        *)
(* completion.  Zone.processQueues is modelled one callback at a time      *)
(* (zonePc is its position); while it runs no other task is taken.         *)
(***************************************************************************)
EXTENDS Integers, Sequences, FiniteSets, TLC

\* Bounds of the model.
MaxValue == 1
MaxRequests == 3
MaxQueued == 2
MaxDeps == 2
MaxXhr == 2

VARIABLES
  \* Zone
  observerQueue, observerSet, actionQueue, processingScheduled,
  suppressedObserver,
  drainCallbacks,     \* outstanding setTimeout(() => this.processQueues())
  zonePc,             \* position inside Zone.processQueues
  \* references
  observers,          \* ReferenceWithObservers.observers, per cell
  isViewSource,       \* Boxed boolean of the application
  isActive,           \* notOp(isViewSource): the ComputableReference's value
  fields,             \* the Datastore's serializable Boxed cells
  syncStatus,         \* the Datastore's connectivity cell
  \* DatastoreSync
  started, isRequestPending, isRequestInProgress, shouldPush,
  \* environment
  timers,             \* outstanding setTimeout(scheduleAction(startSync))
  requests,           \* transport requests whose `active` flag is still true
  \* history
  lastOp,             \* the handler that ran in the last step
  hist,               \* what the claims need to remember of the past
  \* the library on its own (the Zone, cells and transport under any caller)
  thrown,             \* the last task or callback ended by a panic (throw)
  cells,              \* Boxed and ComputableReference objects, by name
  script,             \* what each caller-supplied callback does when it runs
  lifespans,          \* Lifespan.callbacks, per Lifespan object
  xhr,                \* HttpTransport requests: the closure of startRequest
  server,             \* the Server process: its secrets and its Datastore
  peers,              \* the browser tabs that sync with the server
  note                \* history of the library runs

zoneVars == <<observerQueue, observerSet, actionQueue, processingScheduled,
              suppressedObserver, drainCallbacks, zonePc>>
refVars == <<observers, isViewSource, isActive, fields, syncStatus>>
syncVars == <<started, isRequestPending, isRequestInProgress, shouldPush>>
envVars == <<timers, requests>>
labVars == <<xhr, server, peers>>
libVars == <<thrown, cells, lifespans, script, labVars, note>>
vars == <<zoneVars, refVars, syncVars, envVars, lastOp, hist, libVars>>

----------------------------------------------------------------------------
\* protocol.js

PULL_REQUEST == "PULL"
PUSH_REQUEST == "PUSH"

\* reflection.js: SyncStatus enum
NOT_INITIALIZED == "NOT_INITIALIZED"
OFFLINE == "OFFLINE"
ONLINE == "ONLINE"

\* ComputableReference.NEEDS_RECOMPUTE
NEEDS_RECOMPUTE == "NEEDS_RECOMPUTE"

Values == 0 .. MaxValue

----------------------------------------------------------------------------
\* counterdata.js / datastore.js

\* The members of counterData, in declaration order.
Members ==
  << [name |-> "state", kind |-> "Boxed", type |-> "integer"],
     [name |-> "increment", kind |-> "ConstantReference", type |-> "function"],
     [name |-> "reset", kind |-> "ConstantReference", type |-> "function"] >>

isSerializeble(type) == type \in {"boolean", "string", "integer"}

\* Datastore.getFields: the names of the Boxed members of a serializable type.
getFields ==
  LET keep(m) == m.kind = "Boxed" /\ isSerializeble(m.type)
      sel == SelectSeq(Members, keep)
  IN  [i \in 1 .. Len(sel) |-> sel[i].name]

FieldNames == {getFields[i] : i \in 1 .. Len(getFields)}

\* Datastore.toJson: a record of the serializable fields' values.
toJson(fs) == [f \in FieldNames |-> fs[f]]

\* A payload the server can answer a PULL with: its own Datastore's toJson().
Payloads == [FieldNames -> Values]

----------------------------------------------------------------------------
\* The program's state as one record, so that a handler is a function from
\* the state before it to the state after it.

Now ==
  [observerQueue |-> observerQueue, observerSet |-> observerSet,
   actionQueue |-> actionQueue, processingScheduled |-> processingScheduled,
   suppressedObserver |-> suppressedObserver, drainCallbacks |-> drainCallbacks,
   observers |-> observers, isViewSource |-> isViewSource, isActive |-> isActive,
   fields |-> fields, syncStatus |-> syncStatus,
   started |-> started, isRequestPending |-> isRequestPending,
   isRequestInProgress |-> isRequestInProgress, shouldPush |-> shouldPush,
   timers |-> timers, requests |-> requests,
   \* no exception is propagating when a task or a callback begins
   thrown |-> FALSE, cells |-> cells, lifespans |-> lifespans]

Becomes(s) ==
  /\ observerQueue' = s.observerQueue
  /\ observerSet' = s.observerSet
  /\ actionQueue' = s.actionQueue
  /\ processingScheduled' = s.processingScheduled
  /\ suppressedObserver' = s.suppressedObserver
  /\ drainCallbacks' = s.drainCallbacks
  /\ observers' = s.observers
  /\ isViewSource' = s.isViewSource
  /\ isActive' = s.isActive
  /\ fields' = s.fields
  /\ syncStatus' = s.syncStatus
  /\ started' = s.started
  /\ isRequestPending' = s.isRequestPending
  /\ isRequestInProgress' = s.isRequestInProgress
  /\ shouldPush' = s.shouldPush
  /\ timers' = s.timers
  /\ requests' = s.requests
  /\ thrown' = s.thrown
  /\ cells' = s.cells
  /\ lifespans' = s.lifespans

\* panic(message): the exception unwinds the handler that is running.
panic(s) == [s EXCEPT !.thrown = TRUE]

----------------------------------------------------------------------------
\* Zone (elements.js)

\* Mutant: scheduleProcessing without the processingScheduled test.
scheduleProcessing_always(s) ==
  [s EXCEPT !.drainCallbacks = @ + 1, !.processingScheduled = TRUE]

\* Zone.scheduleProcessing
scheduleProcessing(s) ==
  IF ~s.processingScheduled
  THEN [s EXCEPT !.drainCallbacks = @ + 1, !.processingScheduled = TRUE]
  ELSE s

\* Mutant: scheduleObserver without the observerSet test.
scheduleObserver_noCollapse(s, observer) ==
  IF observer = s.suppressedObserver
  THEN s
  ELSE scheduleProcessing([s EXCEPT !.observerQueue = Append(@, observer),
                                    !.observerSet = @ \cup {observer}])

\* Mutant: scheduleObserver that does not add the observer to observerSet.
scheduleObserver_forgetsSet(s, observer) ==
  IF observer \in s.observerSet \/ observer = s.suppressedObserver
  THEN s
  ELSE scheduleProcessing([s EXCEPT !.observerQueue = Append(@, observer)])

\* Zone.scheduleObserver
scheduleObserver(s, observer) ==
  IF observer \in s.observerSet \/ observer = s.suppressedObserver
  THEN s
  ELSE scheduleProcessing([s EXCEPT !.observerQueue = Append(@, observer),
                                    !.observerSet = @ \cup {observer}])

\* Mutant: scheduleAction that puts the action at the front of the queue.
scheduleAction_front(s, action) ==
  scheduleProcessing([s EXCEPT !.actionQueue = <<action>> \o @])

\* Zone.scheduleAction
scheduleAction(s, action) ==
  scheduleProcessing([s EXCEPT !.actionQueue = Append(@, action)])

\* Zone.scheduleDelayedAction(this.startSync, SYNC_INTERVAL_MS): one more timer
\* whose callback is scheduleAction(startSync).
scheduleDelayedAction(s) == [s EXCEPT !.timers = @ + 1]

\* Mutant: internalSuppressObserver that overwrites the slot.
internalSuppressObserver_overwrites(s, observer) ==
  [s EXCEPT !.suppressedObserver = observer]

\* Zone.internalSuppressObserver
internalSuppressObserver(s, observer) ==
  IF s.suppressedObserver # "null"
  THEN panic(s)
  ELSE [s EXCEPT !.suppressedObserver = observer]

\* Zone.internalUnsuppressObserver
internalUnsuppressObserver(s, observer) ==
  IF s.suppressedObserver # observer
  THEN panic(s)
  ELSE [s EXCEPT !.suppressedObserver = "null"]

\* ReferenceWithObservers.internalTriggerObservers: schedules a copy of the
\* observer list, in order.
RECURSIVE internalTriggerObservers(_, _)
internalTriggerObservers(s, obs) ==
  IF obs = <<>> THEN s
  ELSE internalTriggerObservers(scheduleObserver(s, Head(obs)), Tail(obs))

----------------------------------------------------------------------------
\* Lifespan (elements.js).  A callback is known by its name; the closures
\* the library itself registers are named after what they close over:
\* makeSubSpan's () => subSpan.finish() and observe's function that removes
\* the observer from the reference's list.

SubSpans == {"S", "G"}
FinishCallback == [S |-> "S.finish", G |-> "G.finish"]
ReleaseCallback ==
  [o \in {"o1", "o2", "joined.recompute"} |->
     CASE o = "o1" -> "o1.release"
       [] o = "o2" -> "o2.release"
       [] o = "joined.recompute" -> "joined.recompute.release"]

\* Lifespan.onFinish; F is ForeverLifespan.instance, whose onFinish is empty.
onFinish(s, lifespan, callback) ==
  IF lifespan = "F"
  THEN s
  ELSE [s EXCEPT !.lifespans[lifespan] = Append(@, callback)]

\* Mutant: finish that leaves the callbacks registered.
finish_keepsCallbacks(s, lifespan) ==
  IF Len(s.lifespans[lifespan]) > 0
  THEN internalTriggerObservers(s, s.lifespans[lifespan])
  ELSE s

\* Lifespan.finish: the for loop calls zone.scheduleObserver on each callback
\* of the array taken before the list is replaced by a new one.
finish(s, lifespan) ==
  IF Len(s.lifespans[lifespan]) > 0
  THEN LET callbacksArray == s.lifespans[lifespan]
           s1 == [s EXCEPT !.lifespans[lifespan] = <<>>]
       IN  internalTriggerObservers(s1, callbacksArray)
  ELSE s

\* Mutant: makeSubSpan that does not register the sub-span with its parent.
makeSubSpan_detached(s, lifespan, subSpan) ==
  [s EXCEPT !.lifespans = [x \in DOMAIN @ \cup {subSpan} |->
                             IF x = subSpan THEN <<>> ELSE @[x]]]

\* Lifespan.makeSubSpan: subSpan names the new Lifespan object.
makeSubSpan(s, lifespan, subSpan) ==
  LET s1 == [s EXCEPT !.lifespans = [x \in DOMAIN @ \cup {subSpan} |->
                                       IF x = subSpan THEN <<>> ELSE @[x]]]
  IN  onFinish(s1, lifespan, FinishCallback[subSpan])

\* The function observe registers with the lifespan: it removes the observer
\* from the reference's list, and panics when it is not there.
releaseObserver(s, cell, observer) ==
  LET obs == s.observers[cell]
      found == {i \in 1 .. Len(obs) : obs[i] = observer}
  IN  IF found # {}
      THEN LET index == CHOOSE i \in found : \A j \in found : i <= j
           IN  [s EXCEPT !.observers[cell] =
                  SubSeq(obs, 1, index - 1) \o SubSeq(obs, index + 1, Len(obs))]
      ELSE panic(s)

\* Mutant: observe that registers nothing with the lifespan.
ReferenceWithObservers_observe_leaks(s, cell, lifespan, callback) ==
  [s EXCEPT !.observers[cell] = Append(@, callback)]

\* ReferenceWithObservers.observe, for a Lifespan object and a function.
ReferenceWithObservers_observe(s, cell, lifespan, callback) ==
  LET s1 == [s EXCEPT !.observers[cell] = Append(@, callback)]
  IN  onFinish(s1, lifespan, ReleaseCallback[callback])

----------------------------------------------------------------------------
\* References (elements.js)

\* Boxed.setValue on a serializable field of the Datastore.
setField(s, f, newValue) ==
  IF newValue = s.fields[f]
  THEN s
  ELSE internalTriggerObservers([s EXCEPT !.fields[f] = newValue], s.observers[f])

\* Boxed.setValue on datastore.syncStatus.
setSyncStatus(s, newValue) ==
  IF newValue = s.syncStatus
  THEN s
  ELSE internalTriggerObservers([s EXCEPT !.syncStatus = newValue],
                                s.observers["syncStatus"])

\* Boxed.setValue on isViewSource.
setIsViewSource(s, newValue) ==
  IF newValue = s.isViewSource
  THEN s
  ELSE internalTriggerObservers([s EXCEPT !.isViewSource = newValue],
                                s.observers["isViewSource"])

\* ComputableReference.getValue on isActive = notOp(isViewSource): computes
\* !getValue(isViewSource) when the value is NEEDS_RECOMPUTE, and caches it.
cacheIsActive(s) ==
  IF s.isActive = NEEDS_RECOMPUTE
  THEN [s EXCEPT !.isActive = IF s.isViewSource THEN "false" ELSE "true"]
  ELSE s

getIsActive(s) == cacheIsActive(s).isActive = "true"

\* ComputableReference.doRecompute on isActive (its `recompute` callback
\* observes isViewSource).
doRecompute(s) ==
  IF s.isActive = NEEDS_RECOMPUTE
  THEN s
  ELSE internalTriggerObservers([s EXCEPT !.isActive = NEEDS_RECOMPUTE],
                                s.observers["isActive"])

----------------------------------------------------------------------------
\* References under any caller (elements.js, reflection.js).  A JavaScript
\* value is a record: its typeof (t) and, for a number, a numeric string or a
\* boolean, the number it converts to (v); an object has its identity in v.

JsNumber(n) == [t |-> "number", v |-> n]
JsString(n) == [t |-> "string", v |-> n]
JsBoolean(n) == [t |-> "boolean", v |-> n]
JsReference(n) == [t |-> "reference", v |-> n]
JsUndefined == [t |-> "undefined", v |-> "undefined"]
JsObject(id) == [t |-> "object", v |-> id]

\* ComputableReference.NEEDS_RECOMPUTE as a value of a cell below: an object.
NeedsRecompute == [t |-> "object", v |-> "NEEDS_RECOMPUTE"]

\* JavaScript's a == b: the same type and value, or, between numbers,
\* numeric strings and booleans, the same number; an object equals only
\* itself.
looseEquals(a, b) ==
  IF a.t \in {"number", "string", "boolean"} /\ b.t \in {"number", "string", "boolean"}
  THEN a.v = b.v
  ELSE a.t = b.t /\ a.v = b.v

\* BooleanType, StringType, IntegerType: the isInstance predicates.
isInstance(type, value) ==
  CASE type = "boolean" -> value.t = "boolean"
    [] type = "string" -> value.t = "string"
    [] type = "integer" -> value.t = "number"

\* Type.check
check(s, type, value) ==
  IF isInstance(type, value) THEN s ELSE panic(s)

\* Mutant: Boxed.setValue without the test for an equal value.
Boxed_setValue_noEqualityTest(s, cell, newValue) ==
  IF newValue.t = "reference" THEN panic(s)
  ELSE LET s1 == check(s, s.cells[cell].type, newValue)
       IN  IF s1.thrown THEN s1
           ELSE internalTriggerObservers([s1 EXCEPT !.cells[cell].value = newValue],
                                         s1.observers[cell])

\* Boxed.setValue
Boxed_setValue(s, cell, newValue) ==
  IF newValue.t = "reference" THEN panic(s)
  ELSE IF looseEquals(newValue, s.cells[cell].value) THEN s
  ELSE LET s1 == check(s, s.cells[cell].type, newValue)
       IN  IF s1.thrown THEN s1
           ELSE internalTriggerObservers([s1 EXCEPT !.cells[cell].value = newValue],
                                         s1.observers[cell])

\* ComputableReference.typecheck
typecheck(s, type, value) ==
  IF value # NeedsRecompute THEN check(s, type, value) ELSE s

\* ComputableReference.getValue; computed is what this.compute() returns if
\* it is called.  The value returned is the cell's value afterwards.
ComputableReference_getValue(s, cell, computed) ==
  IF s.cells[cell].value = NeedsRecompute
  THEN IF computed = NeedsRecompute THEN panic(s)
       ELSE LET s1 == typecheck(s, s.cells[cell].type, computed)
            IN  IF s1.thrown THEN s1
                ELSE [s1 EXCEPT !.cells[cell].value = computed]
  ELSE s

\* Mutant: doRecompute without the test for an invalidated cell.
ComputableReference_doRecompute_always(s, cell) ==
  internalTriggerObservers([s EXCEPT !.cells[cell].value = NeedsRecompute],
                           s.observers[cell])

\* ComputableReference.doRecompute
ComputableReference_doRecompute(s, cell) ==
  IF s.cells[cell].value = NeedsRecompute
  THEN s
  ELSE internalTriggerObservers([s EXCEPT !.cells[cell].value = NeedsRecompute],
                                s.observers[cell])

\* The callback `recompute` of each ComputableReference the runs construct.
RecomputeCallback ==
  [joined |-> "joined.recompute", n |-> "n.recompute", a |-> "a.recompute",
   j |-> "j.recompute", A |-> "A.recompute", B |-> "B.recompute",
   C |-> "C.recompute"]

\* JavaScript's !v and its truthiness, for a boolean.
not(value) == JsBoolean(1 - value.v)
falsy(value) == value.v = 0

\* value.toString() followed by s += ...: a string is kept as the sequence of
\* the pieces it was joined from.
toString(value) ==
  IF value.t = "boolean" THEN IF value.v = 1 THEN <<"true">> ELSE <<"false">>
  ELSE value.v

\* getValue(object) and the compute function of a reference made by notOp,
\* andOp or stringJoin (cells[cell].compute names the function and holds the
\* variables it closes over).  Each returns the state after the call, in
\* which the references read have cached their values, and the value v.  An
\* object that is no Reference is passed through: it is the string it names.
RECURSIVE getValue(_, _)
RECURSIVE compute(_, _)
RECURSIVE doJoin(_, _, _, _)
doJoin(s, joinList, i, text) ==
  IF i > Len(joinList) \/ s.thrown THEN [s |-> s, v |-> JsString(text)]
  ELSE LET r == getValue(s, joinList[i])
       IN  doJoin(r.s, joinList, i + 1, text \o toString(r.v))

compute(s, cell) ==
  LET f == s.cells[cell].compute
  IN  CASE f.op = "not" ->
             LET r == getValue(s, f.operands[1])
             IN  [s |-> r.s, v |-> not(r.v)]
        [] f.op = "and" ->
             LET r == getValue(s, f.operands[1])
             IN  IF falsy(r.v) \/ r.s.thrown THEN r
                 ELSE getValue(r.s, f.operands[2])
        [] f.op = "join" -> doJoin(s, f.operands, 1, <<>>)

getValue(s, object) ==
  IF object \notin DOMAIN s.cells THEN [s |-> s, v |-> JsString(<<object>>)]
  ELSE IF s.cells[object].kind = "Boxed" \/ s.cells[object].value # NeedsRecompute
  THEN [s |-> s, v |-> s.cells[object].value]
  ELSE LET r == compute(s, object)
           after == IF r.s.thrown THEN r.s
                    ELSE ComputableReference_getValue(r.s, object, r.v)
       IN  [s |-> after, v |-> after.cells[object].value]

\* The loop body of introducesCycle for one reference: its dependencies that
\* are not yet in dependenciesSet are pushed, in order.
RECURSIVE pushDependencies(_, _, _)
pushDependencies(list, set, deps) ==
  IF deps = <<>> THEN [list |-> list, set |-> set]
  ELSE IF Head(deps) \in set
       THEN pushDependencies(list, set, Tail(deps))
       ELSE pushDependencies(Append(list, Head(deps)), set \cup {Head(deps)},
                             Tail(deps))

\* The for loop of introducesCycle over the growing dependenciesList.
RECURSIVE scanDependencies(_, _, _, _, _)
scanDependencies(cs, this, list, set, index) ==
  IF index > Len(list) THEN FALSE
  ELSE LET theReference == list[index]
       IN  IF theReference = this THEN TRUE
           ELSE IF cs[theReference].kind = "ComputableReference"
           THEN LET r == pushDependencies(list, set,
                                          cs[theReference].dependsOnReferences)
                IN  scanDependencies(cs, this, r.list, r.set, index + 1)
           ELSE scanDependencies(cs, this, list, set, index + 1)

\* Mutant: introducesCycle that looks at the direct dependencies only.
introducesCycle_direct(cs, this, anotherReference) ==
  \/ anotherReference = this
  \/ /\ cs[anotherReference].kind = "ComputableReference"
     /\ \E i \in 1 .. Len(cs[anotherReference].dependsOnReferences) :
          cs[anotherReference].dependsOnReferences[i] = this

\* ComputableReference.introducesCycle, in the cells cs
introducesCycle(cs, this, anotherReference) ==
  IF anotherReference = this THEN TRUE
  ELSE scanDependencies(cs, this, <<anotherReference>>, {anotherReference}, 1)

\* Mutant: dependsOn without the cycle test.
dependsOn_unchecked(s, cell, anotherObject) ==
  IF anotherObject \notin DOMAIN s.cells
  THEN s
  ELSE [s EXCEPT !.cells[cell].dependsOnReferences = Append(@, anotherObject)]

\* ComputableReference.dependsOn; an argument that names no cell is not a
\* Reference.
dependsOn(s, cell, anotherObject) ==
  IF anotherObject \notin DOMAIN s.cells
  THEN s
  ELSE IF introducesCycle(s.cells, cell, anotherObject)
  THEN panic(s)
  ELSE [s EXCEPT !.cells[cell].dependsOnReferences = Append(@, anotherObject)]

----------------------------------------------------------------------------
\* Datastore (datastore.js)

\* Datastore.fromJson: setValue on every field, in getFields order.  For a
\* property the object lacks, data[field] is undefined: it equals no integer
\* and Boxed.typecheck panics, which ends the loop.
RECURSIVE fromJsonFrom(_, _, _)
fromJsonFrom(s, data, i) ==
  IF i > Len(getFields) THEN s
  ELSE IF getFields[i] \notin DOMAIN data THEN panic(s)
  ELSE fromJsonFrom(setField(s, getFields[i], data[getFields[i]]), data, i + 1)

fromJson(s, data) == fromJsonFrom(s, data, 1)

\* Datastore.observeAll
RECURSIVE observeAllFrom(_, _, _)
observeAllFrom(s, observer, i) ==
  IF i > Len(getFields) THEN s
  ELSE observeAllFrom([s EXCEPT !.observers[getFields[i]] = Append(@, observer)],
                      observer, i + 1)

observeAll(s, observer) == observeAllFrom(s, observer, 1)

\* Any Datastore: its cells are cells[<<datastore, member>>]; members is the
\* definition passed to makeDatastore, in declaration order.

\* Mutant: getFields that does not test the type.
Datastore_getFields_anyType(members) ==
  LET keep(m) == m.kind = "Boxed"
      sel == SelectSeq(members, keep)
  IN  [i \in 1 .. Len(sel) |-> sel[i].name]

\* Datastore.getFields
Datastore_getFields(members) ==
  LET keep(m) == m.kind = "Boxed" /\ isSerializeble(m.type)
      sel == SelectSeq(members, keep)
  IN  [i \in 1 .. Len(sel) |-> sel[i].name]

\* Datastore.toJson: an object with one property per field.
Datastore_toJson(s, datastore, members) ==
  LET fs == Datastore_getFields(members)
  IN  [f \in {fs[i] : i \in 1 .. Len(fs)} |-> s.cells[<<datastore, f>>].value]

\* data[field]: undefined when the object has no such property.
property(data, field) ==
  IF field \in DOMAIN data THEN data[field] ELSE JsUndefined

\* Datastore.fromJson: setValue on each field in turn; a panic ends the loop.
RECURSIVE Datastore_fromJsonFrom(_, _, _, _, _)
Datastore_fromJsonFrom(s, datastore, fs, data, i) ==
  IF i > Len(fs) \/ s.thrown THEN s
  ELSE Datastore_fromJsonFrom(
         Boxed_setValue(s, <<datastore, fs[i]>>, property(data, fs[i])),
         datastore, fs, data, i + 1)

Datastore_fromJson(s, datastore, members, data) ==
  Datastore_fromJsonFrom(s, datastore, Datastore_getFields(members), data, 1)

----------------------------------------------------------------------------
\* HttpTransport.startRequest: the request is sent; its completion (the
\* response or the timeout, whichever finds `active` still true) is a later
\* task.
startRequest(s, requestType, payload) ==
  [s EXCEPT !.requests = Append(@, [type |-> requestType, payload |-> payload])]

\* The payload of a PULL request is null; it is never read.
NoPayload == [f \in FieldNames |-> 0]

----------------------------------------------------------------------------
\* DatastoreSync (client/network/sync.js)

isPullEnabled == TRUE

\* Mutant: scheduleSyncRequest that does not test isRequestPending.
scheduleSyncRequest_again(s) ==
  IF ~s.isRequestInProgress
  THEN [scheduleDelayedAction(s) EXCEPT !.isRequestPending = TRUE]
  ELSE s

\* DatastoreSync.scheduleSyncRequest
scheduleSyncRequest(s) ==
  IF ~s.isRequestPending /\ ~s.isRequestInProgress
  THEN [scheduleDelayedAction(s) EXCEPT !.isRequestPending = TRUE]
  ELSE s

\* DatastoreSync.startPullRequest
startPullRequest(s) ==
  startRequest([s EXCEPT !.isRequestInProgress = TRUE], PULL_REQUEST, NoPayload)

\* DatastoreSync.startPushRequest
startPushRequest(s) ==
  LET s1 == [s EXCEPT !.isRequestInProgress = TRUE]
      payload == toJson(s1.fields)
      s2 == [s1 EXCEPT !.shouldPush = FALSE]
  IN  startRequest(s2, PUSH_REQUEST, payload)

\* Mutant: startSyncRequest with the shouldPush test inverted.
startSyncRequest_inverted(s) ==
  LET s1 == cacheIsActive([s EXCEPT !.isRequestPending = FALSE])
  IN  IF getIsActive(s1)
      THEN IF ~s1.shouldPush THEN startPushRequest(s1)
           ELSE IF isPullEnabled THEN startPullRequest(s1)
           ELSE scheduleSyncRequest(s1)
      ELSE s1

\* DatastoreSync.startSyncRequest
startSyncRequest(s) ==
  LET s1 == cacheIsActive([s EXCEPT !.isRequestPending = FALSE])
  IN  IF getIsActive(s1)
      THEN IF s1.shouldPush THEN startPushRequest(s1)
           ELSE IF isPullEnabled THEN startPullRequest(s1)
           ELSE scheduleSyncRequest(s1)
      ELSE s1

\* DatastoreSync.isActiveToggled
isActiveToggled(s) ==
  LET s1 == cacheIsActive(s)
  IN  IF getIsActive(s1) /\ ~s1.isRequestInProgress /\ ~s1.isRequestPending
      THEN scheduleAction(s1, "startSync")
      ELSE s1

\* Mutant: datastoreChanged that leaves the push to the next poll.
datastoreChanged_lazy(s) == [s EXCEPT !.shouldPush = TRUE]

\* DatastoreSync.datastoreChanged
datastoreChanged(s) ==
  LET s1 == [s EXCEPT !.shouldPush = TRUE]
  IN  IF ~s1.isRequestInProgress THEN scheduleAction(s1, "push") ELSE s1

\* Mutant: pullCallback without the suppression of datastoreObserver.
pullCallback_unsuppressed(s, response) ==
  LET s1 == [s EXCEPT !.isRequestInProgress = FALSE]
      s3 == fromJson(s1, response)
      s5 == setSyncStatus(s3, ONLINE)
  IN  scheduleSyncRequest(s5)

\* DatastoreSync.pullCallback; a panic in internalSuppressObserver or in
\* fromJson ends it there.
pullCallback(s, response) ==
  LET s1 == [s EXCEPT !.isRequestInProgress = FALSE]
      s2 == internalSuppressObserver(s1, "datastoreObserver")
      s3 == IF s2.thrown THEN s2 ELSE fromJson(s2, response)
      s4 == internalUnsuppressObserver(s3, "datastoreObserver")
      s5 == setSyncStatus(s4, ONLINE)
  IN  IF s3.thrown THEN s3 ELSE scheduleSyncRequest(s5)

\* Mutant: pullErrorCallback that does not schedule the next attempt.
pullErrorCallback_noRetry(s) ==
  LET s1 == [s EXCEPT !.isRequestInProgress = FALSE]
  IN  setSyncStatus(s1, OFFLINE)

\* DatastoreSync.pullErrorCallback
pullErrorCallback(s) ==
  LET s1 == [s EXCEPT !.isRequestInProgress = FALSE]
      s2 == setSyncStatus(s1, OFFLINE)
  IN  scheduleSyncRequest(s2)

\* Mutant: pushCallback that leaves syncStatus as it is.
pushCallback_keepsStatus(s) ==
  LET s1 == [s EXCEPT !.isRequestInProgress = FALSE]
  IN  scheduleSyncRequest(s1)

\* DatastoreSync.pushCallback
pushCallback(s) ==
  LET s1 == [s EXCEPT !.isRequestInProgress = FALSE]
      s2 == setSyncStatus(s1, ONLINE)
  IN  scheduleSyncRequest(s2)

\* Mutant: pushErrorCallback that does not re-arm shouldPush.
pushErrorCallback_forgets(s) ==
  LET s1 == [s EXCEPT !.isRequestInProgress = FALSE]
      s2 == setSyncStatus(s1, OFFLINE)
  IN  scheduleSyncRequest(s2)

\* DatastoreSync.pushErrorCallback
pushErrorCallback(s) ==
  LET s1 == [s EXCEPT !.isRequestInProgress = FALSE]
      s2 == setSyncStatus(s1, OFFLINE)
      s3 == [s2 EXCEPT !.shouldPush = TRUE]
  IN  scheduleSyncRequest(s3)

\* DatastoreSync.start, with the default (Forever) lifespan.
start(s) ==
  LET s1 == observeAll(s, "datastoreObserver")
      s2 == [s1 EXCEPT !.observers["isActive"] = Append(@, "isActiveToggled")]
      s3 == scheduleAction(s2, "startSync")
  IN  [s3 EXCEPT !.started = TRUE]

----------------------------------------------------------------------------
\* The counter application's actions (counterdata.js, countermain.js)

\* counterData.increment
increment(s) == setField(s, "state", s.fields["state"] + 1)

\* counterData.reset
reset(s) == setField(s, "state", 0)

\* toggleViewSource
toggleViewSource(s) == setIsViewSource(s, ~s.isViewSource)

----------------------------------------------------------------------------
\* Callbacks supplied by any other caller of the Zone: observers o1, o2 and
\* actions a1, a2.  Each makes at most one call on the Zone, or throws; which
\* one is fixed per callback (script) for a whole run.  a2 only returns.

ZObservers == {"o1", "o2"}
ZActions == {"a1", "a2"}

Calls ==
  [op : {"scheduleObserver"}, arg : ZObservers]
    \cup [op : {"scheduleAction"}, arg : {"a1"}]
    \cup {[op |-> "throw", arg |-> "none"]}

Scripts == {<<>>} \cup {<<c>> : c \in Calls}

runCall(s, call) ==
  CASE call.op = "scheduleObserver" -> scheduleObserver(s, call.arg)
    [] call.op = "scheduleAction" -> scheduleAction(s, call.arg)
    [] call.op = "throw" -> panic(s)
    [] call.op = "setValue" -> Boxed_setValue(s, "b", call.arg)
    [] call.op = "getValue" -> getValue(s, call.arg).s

RECURSIVE runScript(_, _)
runScript(s, calls) ==
  IF calls = <<>> \/ s.thrown THEN s
  ELSE runScript(runCall(s, Head(calls)), Tail(calls))

\* What a queued observer does when Zone.processQueues calls it.
runObserver(s, observer) ==
  CASE observer = "datastoreObserver" -> datastoreChanged(s)
    [] observer = "isActiveToggled" -> isActiveToggled(s)
    [] observer = "recompute" -> doRecompute(s)
    [] observer = "c.recompute" -> ComputableReference_doRecompute(s, "c")
    [] observer \in {RecomputeCallback[c] : c \in DOMAIN RecomputeCallback} ->
         ComputableReference_doRecompute(
           s, CHOOSE c \in DOMAIN RecomputeCallback : RecomputeCallback[c] = observer)
    [] observer \in {FinishCallback[x] : x \in SubSpans} ->
         finish(s, CHOOSE x \in SubSpans : FinishCallback[x] = observer)
    [] observer \in {ReleaseCallback[o] : o \in ZObservers} ->
         releaseObserver(s, "b", CHOOSE o \in ZObservers : ReleaseCallback[o] = observer)
    [] OTHER -> runScript(s, script[observer])

\* What a queued action does when Zone.processQueues calls it.
runAction(s, action) ==
  CASE action = "startSync" -> startSyncRequest(s)
    [] action = "push" -> startPushRequest(s)
    [] action = "increment" -> increment(s)
    [] action = "reset" -> reset(s)
    [] action = "toggleViewSource" -> toggleViewSource(s)
    [] OTHER -> runScript(s, script[action])

----------------------------------------------------------------------------
\* Mutant: processQueues whose action loop does not test the observer queue.
processQueues_actionsFirst(s, pc) ==
  CASE pc = "outer" ->
         IF Len(s.observerQueue) > 0 \/ Len(s.actionQueue) > 0
         THEN [s |-> s, pc |-> "observers", ran |-> "processQueues"]
         ELSE [s |-> [s EXCEPT !.processingScheduled = FALSE], pc |-> "idle",
               ran |-> "processQueues"]
    [] pc = "observers" ->
         IF Len(s.observerQueue) > 0
         THEN LET observer == Head(s.observerQueue)
                  s1 == [s EXCEPT !.observerQueue = Tail(@)]
                  s2 == runObserver(s1, observer)
              IN  IF s2.thrown
                  THEN [s |-> s2, pc |-> "idle", ran |-> observer]
                  ELSE [s |-> [s2 EXCEPT !.observerSet = @ \ {observer}],
                        pc |-> "observers", ran |-> observer]
         ELSE [s |-> s, pc |-> "actions", ran |-> "processQueues"]
    [] pc = "actions" ->
         IF Len(s.actionQueue) > 0
         THEN LET action == Head(s.actionQueue)
                  s1 == [s EXCEPT !.actionQueue = Tail(@)]
                  s2 == runAction(s1, action)
              IN  [s |-> s2, pc |-> IF s2.thrown THEN "idle" ELSE "actions",
                   ran |-> action]
         ELSE [s |-> s, pc |-> "outer", ran |-> "processQueues"]

\* Zone.processQueues, one loop test or one callback at a time.  pc is the
\* position: "outer" the outer while test, "observers" the first inner loop,
\* "actions" the second.  The result names the callback that ran, if any.
\* A callback that throws ends processQueues where it stands.
processQueues(s, pc) ==
  CASE pc = "outer" ->
         IF Len(s.observerQueue) > 0 \/ Len(s.actionQueue) > 0
         THEN [s |-> s, pc |-> "observers", ran |-> "processQueues"]
         ELSE [s |-> [s EXCEPT !.processingScheduled = FALSE], pc |-> "idle",
               ran |-> "processQueues"]
    [] pc = "observers" ->
         IF Len(s.observerQueue) > 0
         THEN LET observer == Head(s.observerQueue)
                  s1 == [s EXCEPT !.observerQueue = Tail(@)]
                  s2 == runObserver(s1, observer)
              IN  IF s2.thrown
                  THEN [s |-> s2, pc |-> "idle", ran |-> observer]
                  ELSE [s |-> [s2 EXCEPT !.observerSet = @ \ {observer}],
                        pc |-> "observers", ran |-> observer]
         ELSE [s |-> s, pc |-> "actions", ran |-> "processQueues"]
    [] pc = "actions" ->
         IF Len(s.observerQueue) = 0 /\ Len(s.actionQueue) > 0
         THEN LET action == Head(s.actionQueue)
                  s1 == [s EXCEPT !.actionQueue = Tail(@)]
                  s2 == runAction(s1, action)
              IN  [s |-> s2, pc |-> IF s2.thrown THEN "idle" ELSE "actions",
                   ran |-> action]
         ELSE [s |-> s, pc |-> "outer", ran |-> "processQueues"]

----------------------------------------------------------------------------
\* The environment's bounds.

\* Each queued callback starts at most one request when it runs; a click or
\* a timer is taken only while the requests it may lead to fit the bound.
Room ==
  Len(requests) + Len(actionQueue) + Len(observerQueue) < MaxRequests

QueuedIncrements ==
  Cardinality({i \in 1 .. Len(actionQueue) : actionQueue[i] = "increment"})

\* The value of `state` stays in Values whatever the queued increments add.
FitsValues(v) == v + QueuedIncrements <= MaxValue

Clicks == {"increment", "reset", "toggleViewSource"}

----------------------------------------------------------------------------
\* History kept for the properties.  HistNext(op, before, after, arg) is the
\* history after the step in which handler `op` took the program from state
\* `before` to state `after` (arg: the response of a successful PULL).

Completions ==
  {"pullCallback", "pullErrorCallback", "pushCallback", "pushErrorCallback"}

\* The step issued a transport request / a request of that type.
Issued(op, before, after) ==
  op \notin Completions /\ Len(after.requests) > Len(before.requests)

IssuedType(op, before, after, type) ==
  Issued(op, before, after) /\ after.requests[Len(after.requests)].type = type

\* The step changed a serializable field by a local write (not by a pull).
LocalChange(op, before, after) ==
  op \in {"setValue", "increment", "reset"} /\ after.fields # before.fields

HistInit ==
  [response |-> NoPayload, pullChanged |-> FALSE, owed |-> FALSE, eager |-> FALSE,
   pushFailed |-> FALSE, retried |-> FALSE, rested |-> FALSE,
   toggledIdle |-> FALSE, c8 |-> "pre", c10 |-> "none",
   unpushed |-> FALSE, lost |-> FALSE, fired |-> FALSE]

HistNext(op, before, after, arg) ==
  [response |-> IF op = "pullCallback" THEN arg ELSE NoPayload,
   \* this step was a pullCallback that changed a field
   pullChanged |-> op = "pullCallback" /\ after.fields # before.fields,
   \* a local change made while no request was in flight, no PUSH started since
   owed |->
     IF IssuedType(op, before, after, PUSH_REQUEST) THEN FALSE
     ELSE IF LocalChange(op, before, after) /\ before.started
             /\ Len(before.requests) = 0 THEN TRUE
     ELSE hist.owed,
   \* this step started the PUSH that was owed
   eager |-> hist.owed /\ IssuedType(op, before, after, PUSH_REQUEST),
   \* a PUSH failed and no request has been started since
   pushFailed |->
     IF op = "pushErrorCallback" THEN TRUE
     ELSE IF Issued(op, before, after) THEN FALSE
     ELSE hist.pushFailed,
   \* this step started the first request after a failed PUSH, and it is a PUSH
   retried |-> hist.pushFailed /\ IssuedType(op, before, after, PUSH_REQUEST),
   \* startSyncRequest found the engine inactive, and isActiveToggled has not
   \* scheduled a sync attempt since
   rested |->
     IF op = "startSync" /\ ~getIsActive(before) THEN TRUE
     ELSE IF op = "isActiveToggled"
             /\ Len(after.actionQueue) > Len(before.actionQueue) THEN FALSE
     ELSE hist.rested,
   \* the active cell became true while idle (nothing in flight, no retry
   \* timer), is still true, and startSyncRequest has not run since
   toggledIdle |->
     IF op = "startSync" THEN FALSE
     ELSE IF op = "toggleViewSource"
     THEN before.started /\ ~after.isViewSource
          /\ Len(before.requests) = 0 /\ before.timers = 0
     ELSE hist.toggledIdle,
   \* "watching": start() ran with the active cell true; since then the cell
   \* has stayed true, no local change was made and no request has completed
   c8 |->
     IF op = "start" THEN (IF before.isViewSource THEN "off" ELSE "watching")
     ELSE IF hist.c8 = "watching"
             /\ (\/ LocalChange(op, before, after)
                 \/ op \in Completions
                 \/ after.isViewSource # before.isViewSource) THEN "off"
     ELSE hist.c8,
   \* "one", "several": local changes of `state` since the Zone went idle;
   \* "drain0", "drain1", "drain2": times datastoreObserver ran in the drain
   \* that follows several changes, with no change made during the drain
   c10 |->
     IF op = "setValue" /\ LocalChange(op, before, after) /\ before.started
     THEN (IF hist.c10 \in {"one", "several"} THEN "several" ELSE "one")
     ELSE IF op = "drainBegins"
     THEN (IF hist.c10 = "several" THEN "drain0" ELSE "none")
     ELSE IF hist.c10 \in {"drain0", "drain1", "drain2"}
     THEN (IF op = "datastoreObserver"
           THEN (IF hist.c10 = "drain0" THEN "drain1" ELSE "drain2")
           ELSE IF LocalChange(op, before, after) THEN "none"
           ELSE hist.c10)
     ELSE hist.c10,
   \* a local change was made after start() and no PUSH has started since
   unpushed |->
     IF IssuedType(op, before, after, PUSH_REQUEST) THEN FALSE
     ELSE IF LocalChange(op, before, after) /\ before.started THEN TRUE
     ELSE hist.unpushed,
   \* this step was a pullCallback that replaced a value written locally and
   \* not carried by any PUSH yet
   lost |-> op = "pullCallback" /\ hist.unpushed /\ after.fields # before.fields,
   \* the retry timer has fired and the startSync action it queued has not
   \* run yet
   fired |->
     IF op = "timer" THEN TRUE
     ELSE IF op = "startSync" THEN FALSE
     ELSE hist.fired]

----------------------------------------------------------------------------
\* No transport request, server or other client is part of the run.
LabUnused ==
  /\ xhr = <<>>
  /\ server = <<>>
  /\ peers = <<>>

\* The counter application uses none of the library-only state.
LibUnused ==
  /\ thrown = FALSE
  /\ lifespans = <<>>
  /\ cells = <<>>
  /\ script = <<>>
  /\ LabUnused
  /\ note = <<>>

\* The state after the constructors: Zone, counterData, isViewSource,
\* notOp(isViewSource) (whose recompute callback observes isViewSource) and
\* DatastoreSync.  counterData.state starts at 68 in counterdata.js; here it
\* starts at the least of the bounded Values.
Init ==
  /\ observerQueue = <<>>
  /\ observerSet = {}
  /\ actionQueue = <<>>
  /\ processingScheduled = FALSE
  /\ suppressedObserver = "null"
  /\ drainCallbacks = 0
  /\ zonePc = "idle"
  /\ observers = [c \in FieldNames \cup {"syncStatus", "isViewSource", "isActive"} |->
                    IF c = "isViewSource" THEN <<"recompute">> ELSE <<>>]
  /\ isViewSource = FALSE
  /\ isActive = NEEDS_RECOMPUTE
  /\ fields = [f \in FieldNames |-> 0]
  /\ syncStatus = NOT_INITIALIZED
  /\ started = FALSE
  /\ isRequestPending = FALSE
  /\ isRequestInProgress = FALSE
  /\ shouldPush = FALSE
  /\ timers = 0
  /\ requests = <<>>
  /\ lastOp = "constructor"
  /\ hist = HistInit
  /\ LibUnused

\* One task of the event loop that runs handler result `after`.
Task(op, after, arg) ==
  /\ zonePc = "idle"
  /\ Becomes(after)
  /\ UNCHANGED zonePc
  /\ lastOp' = op
  /\ hist' = HistNext(op, Now, after, arg)
  /\ UNCHANGED <<script, labVars, note>>

\* main(): DatastoreSync.start()
Start ==
  /\ ~started
  /\ Room
  /\ Task("start", start(Now), 0)

\* A click on a button or on the View Source link: the view schedules the
\* action on the Zone.
Click ==
  \E a \in Clicks :
    /\ Room
    /\ a = "increment" => FitsValues(fields["state"] + 1)
    /\ Task("click", scheduleAction(Now, a), 0)

\* setValue() on a Datastore field from an event handler, outside a drain.
LocalWrite ==
  \E f \in FieldNames, v \in Values :
    /\ Room
    /\ v # fields[f]
    /\ FitsValues(v)
    /\ Task("setValue", setField(Now, f, v), 0)

\* The delayed action's timer fires: scheduleAction(this.startSync).
TimerFires ==
  /\ timers > 0
  /\ Room
  /\ Task("timer", scheduleAction([Now EXCEPT !.timers = @ - 1], "startSync"), 0)

Without(seq, i) == SubSeq(seq, 1, i - 1) \o SubSeq(seq, i + 1, Len(seq))

\* HttpTransport: status 200 with a response text, `active` still true: the
\* success callback runs.
ResponseOk ==
  \E i \in 1 .. Len(requests) :
    LET s == [Now EXCEPT !.requests = Without(@, i)]
    IN  \/ /\ requests[i].type = PULL_REQUEST
           /\ \E response \in Payloads :
                /\ FitsValues(response["state"])
                /\ Task("pullCallback", pullCallback(s, response), response)
        \/ /\ requests[i].type = PUSH_REQUEST
           /\ Task("pushCallback", pushCallback(s), 0)

\* HttpTransport: another status, or the timeout, with `active` still true:
\* the error callback runs.
ResponseFailed ==
  \E i \in 1 .. Len(requests) :
    LET s == [Now EXCEPT !.requests = Without(@, i)]
    IN  \/ /\ requests[i].type = PULL_REQUEST
           /\ Task("pullErrorCallback", pullErrorCallback(s), 0)
        \/ /\ requests[i].type = PUSH_REQUEST
           /\ Task("pushErrorCallback", pushErrorCallback(s), 0)

\* The setTimeout(() => this.processQueues()) callback starts.
DrainBegins ==
  /\ zonePc = "idle"
  /\ drainCallbacks > 0
  /\ drainCallbacks' = drainCallbacks - 1
  /\ zonePc' = "outer"
  /\ lastOp' = "processQueues"
  /\ hist' = HistNext("drainBegins", Now, Now, 0)
  /\ UNCHANGED <<observerQueue, observerSet, actionQueue, processingScheduled,
                 suppressedObserver, refVars, syncVars, envVars, libVars>>

\* Zone.processQueues goes on.
DrainStep ==
  /\ zonePc # "idle"
  /\ LET r == processQueues(Now, zonePc)
     IN  /\ Becomes(r.s)
         /\ zonePc' = r.pc
         /\ lastOp' = r.ran
         /\ hist' = HistNext(IF r.pc = "idle" THEN "drainEnds" ELSE r.ran,
                             Now, r.s, 0)
         /\ UNCHANGED <<script, labVars, note>>

Next ==
  \/ Start
  \/ Click
  \/ LocalWrite
  \/ TimerFires
  \/ ResponseOk
  \/ ResponseFailed
  \/ DrainBegins
  \/ DrainStep

Spec == Init /\ [][Next]_vars

----------------------------------------------------------------------------
\* The Zone on its own, under any caller (ZoneSpec).

\* History of the library runs.  target: the argument of the caller's last
\* call; ranSince: the observers that ran in this drain since it began or
\* since its last action; rerun: one of them ran again.
NoteInit == [target |-> "none", ranSince |-> {}, rerun |-> FALSE]

NoteNext(op, target) ==
  [target |-> target,
   ranSince |->
     IF op = "drainBegins" \/ op \in ZActions THEN {}
     ELSE IF op \in ZObservers THEN note.ranSince \cup {op}
     ELSE note.ranSince,
   rerun |->
     IF op = "drainBegins" \/ op \in ZActions THEN FALSE
     ELSE IF op \in ZObservers THEN note.rerun \/ op \in note.ranSince
     ELSE note.rerun]

\* The application's state is not used by the library runs.
AppUnused ==
  /\ isViewSource = FALSE
  /\ isActive = NEEDS_RECOMPUTE
  /\ fields = [f \in FieldNames |-> 0]
  /\ syncStatus = NOT_INITIALIZED
  /\ started = FALSE
  /\ isRequestPending = FALSE
  /\ isRequestInProgress = FALSE
  /\ shouldPush = FALSE
  /\ timers = 0
  /\ requests = <<>>
  /\ hist = HistInit

\* new Zone()
ZoneInit ==
  /\ observerQueue = <<>>
  /\ observerSet = {}
  /\ actionQueue = <<>>
  /\ processingScheduled = FALSE
  /\ suppressedObserver = "null"
  /\ drainCallbacks = 0
  /\ zonePc = "idle"

ZoneSpecInit ==
  /\ ZoneInit
  /\ AppUnused
  /\ observers = <<>>
  /\ thrown = FALSE
  /\ lifespans = <<>>
  /\ cells = <<>>
  /\ script \in {f \in [ZObservers \cup ZActions -> Scripts] : f["a2"] = <<>>}
  /\ LabUnused
  /\ note = NoteInit
  /\ lastOp = "constructor"

\* One task of the event loop in which the caller makes one library call.
LibTask(op, after, target) ==
  /\ zonePc = "idle"
  /\ Becomes(after)
  /\ lastOp' = op
  /\ note' = NoteNext(op, target)
  /\ UNCHANGED <<zonePc, hist, script, labVars>>

QueueRoom == Len(observerQueue) + Len(actionQueue) < MaxQueued

ZScheduleObserver ==
  \E o \in ZObservers :
    /\ QueueRoom
    /\ LibTask("scheduleObserver", scheduleObserver(Now, o), o)

ZScheduleAction ==
  \E a \in ZActions :
    /\ QueueRoom
    /\ LibTask("scheduleAction", scheduleAction(Now, a), a)

ZSuppress ==
  \E o \in ZObservers :
    LibTask("internalSuppressObserver", internalSuppressObserver(Now, o), o)

ZUnsuppress ==
  \E o \in ZObservers :
    LibTask("internalUnsuppressObserver", internalUnsuppressObserver(Now, o), o)

\* The setTimeout(() => this.processQueues()) callback starts.
LibDrainBegins ==
  /\ zonePc = "idle"
  /\ drainCallbacks > 0
  /\ Becomes([Now EXCEPT !.drainCallbacks = @ - 1])
  /\ zonePc' = "outer"
  /\ lastOp' = "processQueues"
  /\ note' = NoteNext("drainBegins", "none")
  /\ UNCHANGED <<hist, script, labVars>>

\* Zone.processQueues goes on.
LibDrainStep ==
  /\ zonePc # "idle"
  /\ LET r == processQueues(Now, zonePc)
     IN  /\ Becomes(r.s)
         /\ zonePc' = r.pc
         /\ lastOp' = r.ran
         /\ note' = NoteNext(r.ran, "none")
  /\ UNCHANGED <<hist, script, labVars>>

ZoneNext ==
  \/ ZScheduleObserver
  \/ ZScheduleAction
  \/ ZSuppress
  \/ ZUnsuppress
  \/ LibDrainBegins
  \/ LibDrainStep

ZoneSpec == ZoneSpecInit /\ [][ZoneNext]_vars

----------------------------------------------------------------------------
\* A Boxed cell b and a ComputableReference c that depends on it, under any
\* caller (CellSpec): c.recompute and o1 observe b, o2 observes c.

\* What the caller passes to setValue.
JsInputs == {JsNumber(0), JsNumber(1), JsString(1), JsReference("b")}

\* What c's compute function may return.
ComputeResults == {JsNumber(0), JsNumber(1), JsString(1), NeedsRecompute}

\* makeBoxed(0, IntegerType); makeComputableReference(compute, IntegerType)
\* with observeAndDependsOn(b); observe(b, o1); observe(c, o2).
CellSpecInit ==
  /\ ZoneInit
  /\ AppUnused
  /\ observers = [b |-> <<"c.recompute", "o1">>, c |-> <<"o2">>]
  /\ cells = [b |-> [kind |-> "Boxed", type |-> "integer",
                     value |-> JsNumber(0), dependsOnReferences |-> <<>>],
              c |-> [kind |-> "ComputableReference", type |-> "integer",
                     value |-> NeedsRecompute, dependsOnReferences |-> <<"b">>]]
  /\ script = [o \in ZObservers |-> <<>>]
  /\ thrown = FALSE
  /\ lifespans = <<>>
  /\ LabUnused
  /\ note = NoteInit
  /\ lastOp = "constructor"

\* setValue(b, v)
CSetValue ==
  \E v \in JsInputs :
    LibTask("setValue", Boxed_setValue(Now, "b", v), v)

\* getValue(c), with what compute() returns if it is called
CGetValue ==
  \E computed \in ComputeResults :
    LibTask("getValue", ComputableReference_getValue(Now, "c", computed), computed)

\* c.recompute() called directly
CRecompute ==
  LibTask("doRecompute", ComputableReference_doRecompute(Now, "c"), "none")

CellNext ==
  \/ CSetValue
  \/ CGetValue
  \/ CRecompute
  \/ LibDrainBegins
  \/ LibDrainStep

CellSpec == CellSpecInit /\ [][CellNext]_vars

----------------------------------------------------------------------------
\* A Boxed cell b observed by o1 and o2, each of which may itself set b when
\* it runs (NotifySpec).  note.stale is the set of observers of b that have
\* not been invoked since b's value last changed; a change made while an
\* observer runs comes after that invocation began.

NotifyValues == {JsNumber(0), JsNumber(1)}

NotifyScripts ==
  {<<>>} \cup {<<[op |-> "setValue", arg |-> v]>> : v \in NotifyValues}

\* The observers registered on a cell.
Registered(s, cell) == {s.observers[cell][i] : i \in 1 .. Len(s.observers[cell])}

\* makeBoxed(0, IntegerType); observe(b, o1); observe(b, o2)
NotifySpecInit ==
  /\ ZoneInit
  /\ AppUnused
  /\ observers = [b |-> <<"o1", "o2">>]
  /\ cells = [b |-> [kind |-> "Boxed", type |-> "integer",
                     value |-> JsNumber(0), dependsOnReferences |-> <<>>]]
  /\ script \in [ZObservers -> NotifyScripts]
  /\ thrown = FALSE
  /\ lifespans = <<>>
  /\ LabUnused
  /\ note = [stale |-> {}]
  /\ lastOp = "constructor"

StaleNext(op, before, after) ==
  [stale |->
     IF after.cells["b"].value # before.cells["b"].value
     THEN Registered(after, "b")
     ELSE IF op \in ZObservers THEN note.stale \ {op}
     ELSE note.stale]

\* setValue(b, v) from an event handler
NSetValue ==
  \E v \in NotifyValues :
    /\ zonePc = "idle"
    /\ \E s \in {Boxed_setValue(Now, "b", v)} :
         /\ Becomes(s)
         /\ note' = StaleNext("setValue", Now, s)
    /\ lastOp' = "setValue"
    /\ UNCHANGED <<zonePc, hist, script, labVars>>

\* The setTimeout(() => this.processQueues()) callback starts.
NDrainBegins ==
  /\ zonePc = "idle"
  /\ drainCallbacks > 0
  /\ drainCallbacks' = drainCallbacks - 1
  /\ zonePc' = "outer"
  /\ lastOp' = "processQueues"
  /\ UNCHANGED <<observerQueue, observerSet, actionQueue, processingScheduled,
                 suppressedObserver, refVars, syncVars, envVars, hist, thrown,
                 cells, lifespans, script, labVars, note>>

\* Zone.processQueues goes on.
NDrainStep ==
  /\ zonePc # "idle"
  /\ \E r \in {processQueues(Now, zonePc)} :
       /\ Becomes(r.s)
       /\ zonePc' = r.pc
       /\ lastOp' = r.ran
       /\ note' = StaleNext(r.ran, Now, r.s)
  /\ UNCHANGED <<hist, script, labVars>>

NotifyNext ==
  \/ NSetValue
  \/ NDrainBegins
  \/ NDrainStep

NotifySpec == NotifySpecInit /\ [][NotifyNext]_vars

----------------------------------------------------------------------------
\* Dependencies between cells under any caller (GraphSpec): the
\* ComputableReferences A, B, C and the Boxed D, no dependency recorded yet.

Computables == {"A", "B", "C"}

GraphSpecInit ==
  /\ ZoneInit
  /\ AppUnused
  /\ observers = <<>>
  /\ cells = [n \in Computables \cup {"D"} |->
                [kind |-> IF n = "D" THEN "Boxed" ELSE "ComputableReference",
                 type |-> "boolean",
                 value |-> IF n = "D" THEN [t |-> "boolean", v |-> 1]
                           ELSE NeedsRecompute,
                 dependsOnReferences |-> <<>>]]
  /\ script = <<>>
  /\ thrown = FALSE
  /\ lifespans = <<>>
  /\ LabUnused
  /\ note = NoteInit
  /\ lastOp = "constructor"

\* cell.dependsOn(anotherObject), anotherObject a cell or a plain object
GDependsOn ==
  \E cell \in Computables, anotherObject \in DOMAIN cells \cup {"object"} :
    /\ Len(cells[cell].dependsOnReferences) < MaxDeps
    /\ LibTask("dependsOn", dependsOn(Now, cell, anotherObject),
               <<cell, anotherObject>>)

\* cell.introducesCycle(anotherReference), as the tests call it
GIntroducesCycle ==
  \E cell \in Computables, anotherReference \in DOMAIN cells :
    LibTask("introducesCycle", Now,
            <<cell, anotherReference,
              introducesCycle(cells, cell, anotherReference)>>)

GraphNext ==
  \/ GDependsOn
  \/ GIntroducesCycle

GraphSpec == GraphSpecInit /\ [][GraphNext]_vars

----------------------------------------------------------------------------
\* HttpTransport.startRequest under any caller (TransportSpec).  A request is
\* the closure of one startRequest call: its `active` flag, whether the
\* XMLHttpRequest has reached readyState 4, whether the timeout is still to
\* fire, how often each callback was invoked, and whether an exception left
\* the handler uncaught.

\* startRequest: request.send(content) and setTimeout(..., TIMEOUT_INTERVAL_MS)
sendRequest ==
  [active |-> TRUE, done |-> FALSE, timeoutPending |-> TRUE,
   callbackCalls |-> 0, errorCallbackCalls |-> 0, uncaught |-> FALSE]

\* request.onreadystatechange.  ok: status == 200 && responseText; throws:
\* the callback that is invoked throws; throwsAgain: so does errorCallback
\* when the catch clause invokes it.
onreadystatechange(r, readyState, ok, throws, throwsAgain) ==
  IF readyState # 4 THEN r
  ELSE IF ~r.active THEN r
  ELSE LET r1 == [r EXCEPT !.active = FALSE]
       IN  IF ok
           THEN \* an exception of callback is caught and logged
                [r1 EXCEPT !.callbackCalls = @ + 1]
           ELSE IF throws
           THEN \* catch (e) { ... errorCallback(); }
                [r1 EXCEPT !.errorCallbackCalls = @ + 2, !.uncaught = throwsAgain]
           ELSE [r1 EXCEPT !.errorCallbackCalls = @ + 1]

\* The setTimeout callback.  request.abort() on a request that is not done
\* fires readystatechange with readyState 4 at once, `active` being false.
timeoutCallback(r, throws) ==
  IF ~r.active THEN [r EXCEPT !.timeoutPending = FALSE]
  ELSE LET r1 == [r EXCEPT !.active = FALSE, !.timeoutPending = FALSE]
           r2 == IF r1.done THEN r1
                 ELSE [onreadystatechange(r1, 4, FALSE, FALSE, FALSE)
                         EXCEPT !.done = TRUE]
       IN  [r2 EXCEPT !.errorCallbackCalls = @ + 1, !.uncaught = throws]

TransportSpecInit ==
  /\ ZoneInit
  /\ AppUnused
  /\ observers = <<>>
  /\ cells = <<>>
  /\ script = <<>>
  /\ thrown = FALSE
  /\ lifespans = <<>>
  /\ xhr = <<>>
  /\ server = <<>>
  /\ peers = <<>>
  /\ note = NoteInit
  /\ lastOp = "constructor"

XStep(op, i) ==
  /\ lastOp' = op
  /\ note' = NoteNext(op, i)
  /\ UNCHANGED <<zoneVars, refVars, syncVars, envVars, hist, thrown, cells, lifespans,
               script, server, peers>>

\* startRequest(requestType, payload, callback, errorCallback)
XStartRequest ==
  /\ Len(xhr) < MaxXhr
  /\ xhr' = Append(xhr, sendRequest)
  /\ XStep("startRequest", Len(xhr) + 1)

\* A readystatechange event before the request is done (readyState 2 or 3).
XProgress ==
  \E i \in 1 .. Len(xhr), readyState \in {2, 3} :
    /\ ~xhr[i].done
    /\ xhr' = [xhr EXCEPT ![i] = onreadystatechange(@, readyState, FALSE, FALSE, FALSE)]
    /\ XStep("progress", i)

\* The response has arrived: readystatechange with readyState 4.
XResponse ==
  \E i \in 1 .. Len(xhr), ok \in BOOLEAN, throws \in BOOLEAN, throwsAgain \in BOOLEAN :
    /\ ~xhr[i].done
    /\ xhr' = [xhr EXCEPT ![i] = [onreadystatechange(@, 4, ok, throws, throwsAgain)
                                    EXCEPT !.done = TRUE]]
    /\ XStep("response", i)

\* TIMEOUT_INTERVAL_MS have passed.
XTimeout ==
  \E i \in 1 .. Len(xhr), throws \in BOOLEAN :
    /\ xhr[i].timeoutPending
    /\ xhr' = [xhr EXCEPT ![i] = timeoutCallback(@, throws)]
    /\ XStep("timeout", i)

TransportNext ==
  \/ XStartRequest
  \/ XProgress
  \/ XResponse
  \/ XTimeout

TransportSpec == TransportSpecInit /\ [][TransportNext]_vars

----------------------------------------------------------------------------
\* Lifespans under any caller: a root Lifespan P and sub-spans S and G made
\* by makeSubSpan on any of them.  In LifeSpec the caller registers release
\* callbacks r1 and r2 by onFinish, with any of them; r1 may throw.  In
\* ObserveSpec the caller registers o1 by observe as an observer of the Boxed
\* cell b, with any of them, and changes b.  In both o2 observes b under F,
\* ForeverLifespan.instance, which nothing finishes.  Each function is
\* registered once, so a callback's name identifies the registration.

UserReleases == {"r1", "r2"}

LifeCallbacks ==
  UserReleases \cup {FinishCallback[x] : x \in SubSpans}
    \cup {ReleaseCallback[o] : o \in ZObservers}

\* History of a LifeSpec run, taken from the caller's calls and from the
\* callbacks the Zone ran.  parent: the Lifespan makeSubSpan was called on;
\* reg: the Lifespan a callback was registered with; finished: the Lifespans
\* finish() was called on; early: those finished before any ancestor was;
\* again: the last finish() was a repeated one; due: the callbacks that were
\* registered with a Lifespan or its descendants when finish() was called on
\* it; runs: how often the Zone ran each callback.  A sub-span is below its
\* parent until the parent's finish() has taken the callback that finishes
\* it.
LifeNoteInit ==
  [target |-> "none",
   parent |-> [x \in SubSpans |-> "none"],
   reg |-> [c \in LifeCallbacks |-> "none"],
   finished |-> {}, early |-> {}, again |-> FALSE,
   due |-> {},
   runs |-> [c \in LifeCallbacks |-> 0]]

RECURSIVE IsUnder(_, _, _)
IsUnder(n, x, lifespan) ==
  \/ x = lifespan
  \/ /\ x \in SubSpans
     /\ n.parent[x] # "none"
     /\ FinishCallback[x] \notin n.due
     /\ n.runs[FinishCallback[x]] = 0
     /\ IsUnder(n, n.parent[x], lifespan)

\* The Lifespans the caller registers with and finishes.
Finishable == DOMAIN lifespans \ {"F"}

\* new Zone(); P = new Lifespan(zone); b = makeBoxed(0, IntegerType);
\* observe(b, ForeverLifespan.instance, o2)
LifeSpecInit ==
  /\ ZoneInit
  /\ AppUnused
  /\ LabUnused
  /\ observers = [b |-> <<"o2">>]
  /\ cells = [b |-> [kind |-> "Boxed", type |-> "integer",
                     value |-> JsNumber(0), dependsOnReferences |-> <<>>]]
  /\ lifespans = [P |-> <<>>, F |-> <<>>]
  /\ script \in {f \in [ZObservers \cup UserReleases -> {<<>>, <<[op |-> "throw", arg |-> "none"]>>}] :
                   \A c \in ZObservers \cup {"r2"} : f[c] = <<>>}
  /\ thrown = FALSE
  /\ note = [LifeNoteInit EXCEPT !.reg[ReleaseCallback["o2"]] = "F"]
  /\ lastOp = "constructor"

\* One task of the event loop in which the caller makes one call.
LifeTask(op, after, newNote) ==
  /\ zonePc = "idle"
  /\ Becomes(after)
  /\ lastOp' = op
  /\ note' = newNote
  /\ UNCHANGED <<zonePc, hist, script, labVars>>

\* lifespan.onFinish(r)
LOnFinish ==
  \E lifespan \in Finishable, r \in UserReleases :
    /\ note.reg[r] = "none"
    /\ LifeTask("onFinish", onFinish(Now, lifespan, r),
                [note EXCEPT !.target = lifespan, !.reg[r] = lifespan])

\* lifespan.makeSubSpan(): S is made first, G second.
LMakeSubSpan ==
  \E lifespan \in Finishable, subSpan \in SubSpans :
    /\ subSpan \notin DOMAIN lifespans
    /\ subSpan = "G" => "S" \in DOMAIN lifespans
    /\ LifeTask("makeSubSpan", makeSubSpan(Now, lifespan, subSpan),
                [note EXCEPT !.target = subSpan, !.parent[subSpan] = lifespan,
                             !.reg[FinishCallback[subSpan]] = lifespan])

\* observe(b, lifespan, o1)
LObserve ==
  \E lifespan \in Finishable, o \in {"o1"} :
    /\ note.reg[ReleaseCallback[o]] = "none"
    /\ LifeTask("observe", ReferenceWithObservers_observe(Now, "b", lifespan, o),
                [note EXCEPT !.target = o, !.reg[ReleaseCallback[o]] = lifespan])

\* lifespan.finish()
LFinish ==
  \E lifespan \in Finishable :
    LifeTask("finish", finish(Now, lifespan),
             [note EXCEPT
                !.target = lifespan,
                !.again = lifespan \in note.finished,
                !.finished = @ \cup {lifespan},
                !.early = IF \E a \in note.finished : IsUnder(note, lifespan, a)
                          THEN @ ELSE @ \cup {lifespan},
                !.due = @ \cup {c \in LifeCallbacks :
                                  /\ note.reg[c] # "none"
                                  /\ IsUnder(note, note.reg[c], lifespan)}])

\* setValue(b, v)
LSetValue ==
  \E v \in {JsNumber(0), JsNumber(1)} :
    LifeTask("setValue", Boxed_setValue(Now, "b", v), [note EXCEPT !.target = v])

LDrainBegins ==
  /\ zonePc = "idle"
  /\ drainCallbacks > 0
  /\ Becomes([Now EXCEPT !.drainCallbacks = @ - 1])
  /\ zonePc' = "outer"
  /\ lastOp' = "processQueues"
  /\ note' = [note EXCEPT !.target = "none"]
  /\ UNCHANGED <<hist, script, labVars>>

LDrainStep ==
  /\ zonePc # "idle"
  /\ LET r == processQueues(Now, zonePc)
     IN  /\ Becomes(r.s)
         /\ zonePc' = r.pc
         /\ lastOp' = r.ran
         /\ note' = IF r.ran \in LifeCallbacks
                    THEN [note EXCEPT !.target = "none", !.runs[r.ran] = @ + 1]
                    ELSE [note EXCEPT !.target = "none"]
  /\ UNCHANGED <<hist, script, labVars>>

LifeNext ==
  \/ LOnFinish
  \/ LMakeSubSpan
  \/ LFinish
  \/ LDrainBegins
  \/ LDrainStep

LifeSpec == LifeSpecInit /\ [][LifeNext]_vars

ObserveSpecInit ==
  /\ LifeSpecInit
  /\ script["r1"] = <<>>

ObserveNext ==
  \/ LMakeSubSpan
  \/ LObserve
  \/ LFinish
  \/ LSetValue
  \/ LDrainBegins
  \/ LDrainStep

ObserveSpec == ObserveSpecInit /\ [][ObserveNext]_vars

----------------------------------------------------------------------------
\* Two Datastores A and B of one schema under any caller (JsonSpec).  The
\* schema has a Boxed cell of each serializable type, a Boxed cell of an enum
\* type, a constant and a computed cell; the constructor adds syncStatus.
\* o1 observes every cell of B.

SchemaMembers ==
  << [name |-> "flag", kind |-> "Boxed", type |-> "boolean"],
     [name |-> "mode", kind |-> "Boxed", type |-> "SyncStatus"],
     [name |-> "title", kind |-> "Boxed", type |-> "string"],
     [name |-> "increment", kind |-> "ConstantReference", type |-> "function"],
     [name |-> "label", kind |-> "ComputableReference", type |-> "string"],
     [name |-> "state", kind |-> "Boxed", type |-> "integer"] >>

SYNC_STATUS_NAME == "syncStatus"

Datastores == {"A", "B"}

SchemaCells ==
  {SchemaMembers[i].name : i \in 1 .. Len(SchemaMembers)} \cup {SYNC_STATUS_NAME}

\* A cell of the schema holding value v.
SchemaCell(name, v) ==
  IF name = SYNC_STATUS_NAME
  THEN [kind |-> "Boxed", type |-> "SyncStatus", value |-> v,
        dependsOnReferences |-> <<>>]
  ELSE LET m == CHOOSE x \in {SchemaMembers[i] : i \in 1 .. Len(SchemaMembers)} :
                  x.name = name
       IN  [kind |-> m.kind, type |-> m.type, value |-> v,
            dependsOnReferences |-> <<>>]

\* The well-typed values of a cell of the schema.
WellTyped(name) ==
  CASE name = "flag" -> {JsBoolean(0), JsBoolean(1)}
    [] name = "title" -> {JsString(0), JsString(1)}
    [] name = "state" -> {JsNumber(0), JsNumber(1)}
    [] name = "mode" -> {JsObject(OFFLINE), JsObject(ONLINE)}
    [] name = "increment" -> {[t |-> "function", v |-> "increment"]}
    [] name = "label" -> {NeedsRecompute, JsString(1)}
    [] name = SYNC_STATUS_NAME -> {JsObject(NOT_INITIALIZED)}

JsonSpecInit ==
  /\ ZoneInit
  /\ AppUnused
  /\ LabUnused
  /\ observers = [k \in Datastores \X SchemaCells |->
                    IF k[1] = "B" THEN <<"o1">> ELSE <<>>]
  /\ \E values \in [Datastores \X {"flag", "title", "state"} -> {0, 1}],
        mode \in [Datastores -> {OFFLINE, ONLINE}] :
        cells = [k \in Datastores \X SchemaCells |->
                   SchemaCell(k[2],
                     CASE k[2] = "flag" -> JsBoolean(values[k])
                       [] k[2] = "title" -> JsString(values[k])
                       [] k[2] = "state" -> JsNumber(values[k])
                       [] k[2] = "mode" -> JsObject(mode[k[1]])
                       [] k[2] = "increment" -> [t |-> "function", v |-> "increment"]
                       [] k[2] = "label" -> NeedsRecompute
                       [] k[2] = SYNC_STATUS_NAME -> JsObject(NOT_INITIALIZED))]
  /\ lifespans = <<>>
  /\ script = [o \in ZObservers |-> <<>>]
  /\ thrown = FALSE
  /\ note = NoteInit
  /\ lastOp = "constructor"

\* datastore.fromJson(datastore.toJson())
JRoundTrip ==
  \E datastore \in Datastores :
    LibTask("roundTrip",
            Datastore_fromJson(Now, datastore, SchemaMembers,
                               Datastore_toJson(Now, datastore, SchemaMembers)),
            datastore)

\* another.fromJson(datastore.toJson())
JApply ==
  \E datastore \in Datastores, another \in Datastores :
    /\ datastore # another
    /\ LibTask("apply",
               Datastore_fromJson(Now, another, SchemaMembers,
                                  Datastore_toJson(Now, datastore, SchemaMembers)),
               <<datastore, another>>)

JsonNext ==
  \/ JRoundTrip
  \/ JApply
  \/ LibDrainBegins
  \/ LibDrainStep

JsonSpec == JsonSpecInit /\ [][JsonNext]_vars

----------------------------------------------------------------------------
\* The server (server/main.js) under any HTTP client (ServerSpec).  The
\* server is its syncToken and the serializable fields of its Datastore
\* (counterData).  A string is known by its name; "undefined" stands for the
\* value undefined.

POST_METHOD == "POST"

\* What data/secrets.json may be when the server starts: the file start.sh
\* writes, no file (or one JSON.parse rejects), a file without SYNC_TOKEN.
SecretsFiles == {"token", "missing", "other"}

\* Server.loadSecrets, then this.secrets["SYNC_TOKEN"]
loadSecrets(file) ==
  IF file = "token" THEN "T" ELSE "undefined"

\* JavaScript's truthiness of a string or undefined.
truthy(x) == x # "undefined" /\ x # ""

\* Server.processPull: the response is JSON.stringify(datastore.toJson()).
processPull(sv) ==
  [server |-> sv, status |-> 200, body |-> <<toJson(sv.fields)>>]

\* Server.processPush.  payload is <<data>> for the JSON text of data and
\* <<>> for a missing or malformed parameter, on which JSON.parse throws and
\* nothing is answered; otherwise datastore.fromJson sets the fields.
processPush(sv, payload) ==
  IF payload = <<>>
  THEN [server |-> sv, status |-> 0, body |-> "exception"]
  ELSE [server |-> [sv EXCEPT !.fields = [f \in FieldNames |-> payload[1][f]]],
        status |-> 200, body |-> "Ok"]

\* Server.processSync with the parameters querystring.parse finds in the body.
processSync(sv, method, request, token, payload) ==
  IF method # POST_METHOD
  THEN [server |-> sv, status |-> 405, body |-> "405!"]
  ELSE IF truthy(sv.syncToken) /\ token # sv.syncToken
  THEN [server |-> sv, status |-> 403, body |-> "403!"]
  ELSE IF request = PULL_REQUEST THEN processPull(sv)
  ELSE IF request = PUSH_REQUEST THEN processPush(sv, payload)
  ELSE [server |-> sv, status |-> 400, body |-> "400!"]

\* new Server(counterData).start(): the secrets are loaded; the data file
\* holds any earlier state.
ServerStarted(file, state) ==
  [syncToken |-> loadSecrets(file), fields |-> [f \in FieldNames |-> state]]

ServerSpecInit ==
  /\ ZoneInit
  /\ AppUnused
  /\ observers = <<>>
  /\ cells = <<>>
  /\ lifespans = <<>>
  /\ script = <<>>
  /\ thrown = FALSE
  /\ xhr = <<>>
  /\ peers = <<>>
  /\ \E file \in SecretsFiles, state \in Values : server = ServerStarted(file, state)
  /\ note = [NoteInit EXCEPT !.target = "none"]
  /\ lastOp = "constructor"

\* What an HTTP client may send.
Methods == {"POST", "GET"}
RequestKinds == {PULL_REQUEST, PUSH_REQUEST, "OTHER", "undefined"}
Tokens == {"T", "bad", "undefined"}

\* One HTTP request to /sync is served.
SRequest ==
  \E method \in Methods, request \in RequestKinds, token \in Tokens,
     payload \in {<<>>} \cup {<<data>> : data \in Payloads} :
    LET r == processSync(server, method, request, token, payload)
    IN  /\ server' = r.server
        /\ lastOp' = "processSync"
        /\ note' = [NoteInit EXCEPT !.target =
                      [method |-> method, request |-> request, token |-> token,
                       payload |-> payload, status |-> r.status]]
        /\ UNCHANGED <<zoneVars, refVars, syncVars, envVars, hist, thrown, cells,
                       lifespans, script, xhr, peers>>

ServerNext == SRequest

ServerSpec == ServerSpecInit /\ [][ServerNext]_vars

----------------------------------------------------------------------------
\* Enum types (reflection.js) under any caller (EnumSpec).  A value object
\* { name, index } has an identity: the call that made it and its position
\* there.  Types are kept in cells, by name.

\* Mutant: addEnumType that counts the values from one.
addEnumType_fromOne(name, values) ==
  LET value(i) == [t |-> "object", id |-> <<name, i>>,
                   name |-> values[i], index |-> i]
      all == [i \in 1 .. Len(values) |-> value(i)]
      last(valueName) ==
        CHOOSE i \in 1 .. Len(values) :
          values[i] = valueName /\ \A j \in 1 .. Len(values) : values[j] = valueName => j <= i
  IN  [kind |-> "Type", name |-> name, all |-> all,
       members |-> [valueName \in {values[i] : i \in 1 .. Len(values)} |->
                      all[last(valueName)]]]

\* addEnumType(namespace, name, values): `all` is the array of the value
\* objects, members the properties result[valueName] (a later assignment to
\* the same property replaces an earlier one).  The loop's i counts from 0.
addEnumType(name, values) ==
  LET value(i) == [t |-> "object", id |-> <<name, i>>,
                   name |-> values[i], index |-> i - 1]
      all == [i \in 1 .. Len(values) |-> value(i)]
      last(valueName) ==
        CHOOSE i \in 1 .. Len(values) :
          values[i] = valueName /\ \A j \in 1 .. Len(values) : values[j] = valueName => j <= i
  IN  [kind |-> "Type", name |-> name, all |-> all,
       members |-> [valueName \in {values[i] : i \in 1 .. Len(values)} |->
                      all[last(valueName)]]]

\* isInstanceFunction of an enum type: all.includes(value)
isInstanceFunction(type, value) ==
  \E i \in 1 .. Len(type.all) : type.all[i] = value

\* const SyncStatus = addEnumType(elementsNamespace, "SyncStatus", [...])
SyncStatusNames == <<"NOT_INITIALIZED", "NOT_AUTHENTICATED", "OFFLINE", "ONLINE">>

\* The lists of names a caller declares: no name twice.
EnumNames == {"FOO", "BAR", "BAZ"}
NameLists ==
  {l \in UNION {[1 .. n -> EnumNames] : n \in 0 .. Cardinality(EnumNames)} :
     \A i, j \in 1 .. Len(l) : l[i] = l[j] => i = j}

\* What a caller may pass to isInstance: a value object of a type, a name as
\* a string, an object literal that looks like a value object.
EnumCandidates ==
  UNION {{cells[type].all[i] : i \in 1 .. Len(cells[type].all)} : type \in DOMAIN cells}
    \cup {[t |-> "string", id |-> <<"string", 0>>, name |-> n, index |-> 0] :
            n \in EnumNames \cup {"ONLINE"}}
    \cup {[t |-> "object", id |-> <<"literal", 0>>, name |-> n, index |-> i] :
            n \in {"FOO"}, i \in {0, 1}}

EnumSpecInit ==
  /\ ZoneInit
  /\ AppUnused
  /\ LabUnused
  /\ observers = <<>>
  /\ cells = [SyncStatus |-> addEnumType("SyncStatus", SyncStatusNames)]
  /\ lifespans = <<>>
  /\ script = <<>>
  /\ thrown = FALSE
  /\ note = [NoteInit EXCEPT !.target = [values |-> <<>>]]
  /\ lastOp = "constructor"

EnumStep(op, target) ==
  /\ lastOp' = op
  /\ note' = [note EXCEPT !.target = target]
  /\ UNCHANGED <<zoneVars, refVars, syncVars, envVars, hist, thrown, lifespans,
                 script, labVars>>

\* const TestEnum = addEnumType(elementsNamespace, "TestEnum", values)
EAddEnumType ==
  \E values \in NameLists :
    /\ "TestEnum" \notin DOMAIN cells
    /\ cells' = [type \in {"SyncStatus", "TestEnum"} |->
                   IF type = "TestEnum" THEN addEnumType("TestEnum", values)
                   ELSE cells[type]]
    /\ EnumStep("addEnumType", [values |-> values])

\* type.isInstance(value)
EIsInstance ==
  \E type \in DOMAIN cells, value \in EnumCandidates :
    /\ cells' = cells
    /\ EnumStep("isInstance",
                [values |-> note.target.values, type |-> type, value |-> value,
                 result |-> isInstanceFunction(cells[type], value)])

EnumNext ==
  \/ EAddEnumType
  \/ EIsInstance

EnumSpec == EnumSpecInit /\ [][EnumNext]_vars

----------------------------------------------------------------------------
\* Requests to sync a cell (GateSpec).  The cells boxed and other are made by
\* makeBoxed("foo", StringType); a Boxed carries the function given to
\* setSyncFunction, by name, "none" if there is none.

\* const Priority = addEnumType(elementsNamespace, "Priority", [...])
PriorityNames == <<"NONE", "LOWEST", "LOW", "NORMAL", "HIGH", "HIGHEST">>
Priority == addEnumType("Priority", PriorityNames)

\* Mutant: observeAndDependsOn that observes and records no dependency.
observeAndDependsOn_observeOnly(s, cell, object, lifespan) ==
  IF object \notin DOMAIN s.cells
  THEN s
  ELSE ReferenceWithObservers_observe(s, object, lifespan, RecomputeCallback[cell])

\* ComputableReference.observeAndDependsOn
observeAndDependsOn(s, cell, object, lifespan) ==
  IF object \notin DOMAIN s.cells
  THEN s
  ELSE dependsOn(ReferenceWithObservers_observe(s, object, lifespan,
                                                RecomputeCallback[cell]),
                 cell, object)

\* makeComputableReference(computeFunction, type) as the object `result`
makeComputableReference(s, result, computeFunction, type) ==
  [s EXCEPT !.cells = [n \in DOMAIN s.cells \cup {result} |->
                         IF n = result
                         THEN [kind |-> "ComputableReference", type |-> type,
                               value |-> NeedsRecompute,
                               dependsOnReferences |-> <<>>,
                               compute |-> computeFunction]
                         ELSE s.cells[n]],
            !.observers = [n \in DOMAIN s.observers \cup {result} |->
                             IF n = result THEN <<>> ELSE s.observers[n]]]

\* stringJoin's loop over joinList from index i on
RECURSIVE joinFrom(_, _, _, _)
joinFrom(s, result, joinList, i) ==
  IF i > Len(joinList)
  THEN s
  ELSE joinFrom(observeAndDependsOn(s, result, joinList[i], "F"),
                result, joinList, i + 1)

\* stringJoin(...joinList), its result named `result`; defaultLifespan(null)
\* is ForeverLifespan.instance.
stringJoin(s, result, joinList) ==
  joinFrom(makeComputableReference(s, result, [op |-> "join", operands |-> joinList],
                                   "string"),
           result, joinList, 1)

\* Mutant: andOp that wires the result to its first argument only.
andOp_firstOnly(s, result, first, second) ==
  observeAndDependsOn(
    makeComputableReference(s, result, [op |-> "and", operands |-> <<first, second>>],
                            "boolean"),
    result, first, "F")

\* andOp(first, second), its result named `result`, with the default lifespan
andOp(s, result, first, second) ==
  observeAndDependsOn(
    observeAndDependsOn(
      makeComputableReference(s, result, [op |-> "and", operands |-> <<first, second>>],
                              "boolean"),
      result, first, "F"),
    result, second, "F")

\* notOp(expression), its result named `result`, with the default lifespan
notOp(s, result, expression) ==
  observeAndDependsOn(
    makeComputableReference(s, result, [op |-> "not", operands |-> <<expression>>],
                            "boolean"),
    result, expression, "F")

\* Boxed.setSyncFunction
setSyncFunction(s, cell, syncFunction) ==
  [s EXCEPT !.cells[cell].syncFunction = syncFunction]

\* The priority from which a request to sync is passed on.
SyncThreshold == "NORMAL"

\* The sync functions a request on `cell` reaches, in the order of the calls:
\* that of a Boxed, those of the references a ComputableReference depends on.
RECURSIVE syncCalls(_, _)
RECURSIVE syncCallsOver(_, _)
syncCallsOver(cs, list) ==
  IF Len(list) = 0 THEN <<>>
  ELSE syncCalls(cs, Head(list)) \o syncCallsOver(cs, Tail(list))
syncCalls(cs, cell) ==
  IF cs[cell].kind = "Boxed"
  THEN IF cs[cell].syncFunction = "none" THEN <<>> ELSE <<cs[cell].syncFunction>>
  ELSE syncCallsOver(cs, cs[cell].dependsOnReferences)

\* sync(cell, priority, lifespan): the sync functions it calls
sync(cs, cell, priority, lifespan) ==
  IF priority.index < Priority.members[SyncThreshold].index
  THEN <<>>
  ELSE syncCalls(cs, cell)

\* The arguments of stringJoin: the two Boxed cells and the string "bar".
JoinArguments == {"boxed", "other", "bar"}

GateSpecInit ==
  /\ ZoneInit
  /\ AppUnused
  /\ LabUnused
  /\ observers = [n \in {"boxed", "other"} |-> <<>>]
  /\ cells = [n \in {"boxed", "other"} |->
                [kind |-> "Boxed", type |-> "string", value |-> JsString(0),
                 dependsOnReferences |-> <<>>, syncFunction |-> "none"]]
  /\ lifespans = [F |-> <<>>]
  /\ script = <<>>
  /\ thrown = FALSE
  /\ note = NoteInit
  /\ lastOp = "constructor"

\* cell.setSyncFunction(() => syncCalled = true)
KSetSyncFunction ==
  \E cell \in {"boxed", "other"} :
    /\ cells[cell].syncFunction = "none"
    /\ LibTask("setSyncFunction",
               setSyncFunction(Now, cell, IF cell = "boxed" THEN "boxedSync" ELSE "otherSync"),
               cell)

\* const joined = stringJoin(...joinList)
KStringJoin ==
  \E joinList \in UNION {[1 .. n -> JoinArguments] : n \in 1 .. MaxDeps} :
    /\ "joined" \notin DOMAIN cells
    /\ LibTask("stringJoin", stringJoin(Now, "joined", joinList), joinList)

\* sync(cell, priority, ForeverLifespan.instance)
KSync ==
  \E cell \in DOMAIN cells, i \in 1 .. Len(Priority.all) :
    LibTask("sync", Now,
            [cell |-> cell, priority |-> Priority.all[i].name,
             calls |-> sync(cells, cell, Priority.all[i], "F")])

GateNext ==
  \/ KSetSyncFunction
  \/ KStringJoin
  \/ KSync

GateSpec == GateSpecInit /\ [][GateNext]_vars

----------------------------------------------------------------------------
\* Computed cells made by notOp, andOp and stringJoin (ComputeSpec): the
\* Boxed booleans x and y, n = notOp(x), a = andOp(n, y) and
\* j = stringJoin(a, "bar").  o1 observes x from before n exists, o2 observes
\* y from after a exists; each may read a computed cell when it runs.

Booleans == {JsBoolean(0), JsBoolean(1)}
ComputedCells == {"n", "a", "j"}

ReadScripts ==
  {<<>>} \cup {<<[op |-> "getValue", arg |-> c]>> : c \in ComputedCells}

\* makeBoxed(true, BooleanType) twice; observe(x, o1)
ComputeSpecInit ==
  /\ ZoneInit
  /\ AppUnused
  /\ LabUnused
  /\ observers = [x |-> <<"o1">>, y |-> <<>>]
  /\ cells = [c \in {"x", "y"} |->
                [kind |-> "Boxed", type |-> "boolean", value |-> JsBoolean(1),
                 dependsOnReferences |-> <<>>]]
  /\ lifespans = [F |-> <<>>]
  /\ script \in [ZObservers -> ReadScripts]
  /\ thrown = FALSE
  /\ note = NoteInit
  /\ lastOp = "constructor"

\* n = notOp(x); a = andOp(n, y); j = stringJoin(a, "bar"); observe(y, o2)
wire(s) ==
  ReferenceWithObservers_observe(
    stringJoin(andOp(notOp(s, "n", "x"), "a", "n", "y"), "j", <<"a", "bar">>),
    "y", "F", "o2")

PWire ==
  /\ "n" \notin DOMAIN cells
  /\ LibTask("wire", wire(Now), "none")

\* setValue(x, v), setValue(y, v) from an event handler
PSetValue ==
  \E c \in {"x", "y"}, v \in Booleans :
    /\ "n" \in DOMAIN cells
    /\ LibTask("setValue", Boxed_setValue(Now, c, v), c)

\* getValue(c) from an event handler
PGetValue ==
  \E c \in ComputedCells :
    /\ "n" \in DOMAIN cells
    /\ LibTask("getValue", getValue(Now, c).s, c)

ComputeNext ==
  \/ PWire
  \/ PSetValue
  \/ PGetValue
  \/ LibDrainBegins
  \/ LibDrainStep

ComputeSpec == ComputeSpecInit /\ [][ComputeNext]_vars

----------------------------------------------------------------------------
\* ComputableReferences wired by the caller (WireSpec): A and B, made by
\* makeComputableReference(true, BooleanType) as the tests make them, and the
\* Boxed D.  Every observer is the recompute callback of A or of B.
\* note.rejected: the last call panicked; note.triggered[c]: how often the
\* observers of c were triggered since the last drain began.

Wired == {"A", "B"}

WireNoteInit == [rejected |-> FALSE, triggered |-> [c \in Wired |-> 0]]

WireSpecInit ==
  /\ ZoneInit
  /\ AppUnused
  /\ LabUnused
  /\ observers = [n \in Wired \cup {"D"} |-> <<>>]
  /\ cells = [n \in Wired \cup {"D"} |->
                [kind |-> IF n = "D" THEN "Boxed" ELSE "ComputableReference",
                 type |-> "boolean",
                 value |-> IF n = "D" THEN JsBoolean(1) ELSE NeedsRecompute,
                 dependsOnReferences |-> <<>>]]
  /\ lifespans = [F |-> <<>>]
  /\ script = <<>>
  /\ thrown = FALSE
  /\ note = WireNoteInit
  /\ lastOp = "constructor"

\* An exception that leaves an event handler is reported by the browser; the
\* event loop goes on.
uncaught(s) == [s EXCEPT !.thrown = FALSE]

\* One task of the event loop in which the caller makes one library call.
WireTask(op, after) ==
  /\ zonePc = "idle"
  /\ \E s \in {after} :
       /\ Becomes(uncaught(s))
       /\ note' = [note EXCEPT !.rejected = s.thrown]
  /\ lastOp' = op
  /\ UNCHANGED <<zonePc, hist, script, labVars>>

\* The recompute callback of `cell` is registered as an observer of `object`.
Observes(cell, object) ==
  \E i \in 1 .. Len(observers[object]) : observers[object][i] = RecomputeCallback[cell]

\* cell.observeAndDependsOn(object, ForeverLifespan.instance); the caller
\* wires a cell to an object once.
WObserveAndDependsOn ==
  \E cell \in Wired, object \in DOMAIN cells :
    /\ ~Observes(cell, object)
    /\ WireTask("observeAndDependsOn", observeAndDependsOn(Now, cell, object, "F"))

\* getValue(cell): compute() returns true
WGetValue ==
  \E cell \in Wired :
    WireTask("getValue", ComputableReference_getValue(Now, cell, JsBoolean(1)))

\* setValue(D, v)
WSetValue ==
  \E v \in Booleans :
    WireTask("setValue", Boxed_setValue(Now, "D", v))

\* The setTimeout(() => this.processQueues()) callback starts.
WDrainBegins ==
  /\ zonePc = "idle"
  /\ drainCallbacks > 0
  /\ drainCallbacks' = drainCallbacks - 1
  /\ zonePc' = "outer"
  /\ lastOp' = "processQueues"
  /\ note' = [note EXCEPT !.triggered = [c \in Wired |-> 0]]
  /\ UNCHANGED <<observerQueue, observerSet, actionQueue, processingScheduled,
                 suppressedObserver, refVars, syncVars, envVars, hist, thrown,
                 cells, lifespans, script, labVars>>

\* Zone.processQueues goes on.
WDrainStep ==
  /\ zonePc # "idle"
  /\ \E r \in {processQueues(Now, zonePc)} :
       /\ Becomes(r.s)
       /\ zonePc' = r.pc
       /\ lastOp' = r.ran
       /\ note' = [note EXCEPT !.triggered =
                     [c \in Wired |->
                        IF /\ r.ran = RecomputeCallback[c]
                           /\ cells[c].value # NeedsRecompute
                           /\ r.s.cells[c].value = NeedsRecompute
                        THEN @[c] + 1 ELSE @[c]]]
  /\ UNCHANGED <<hist, script, labVars>>

WireNext ==
  \/ WObserveAndDependsOn
  \/ WGetValue
  \/ WSetValue
  \/ WDrainBegins
  \/ WDrainStep

\* The browser runs the drain it has started to its end.
WireSpec == WireSpecInit /\ [][WireNext]_vars /\ WF_vars(WDrainStep)

----------------------------------------------------------------------------
\* Two browser tabs and the server (ClusterSpec).  Each tab runs the
\* application of Spec; peers holds the state of each tab, a record of the
\* shape of Now.  The server was
\* started with the secrets file start.sh writes, and every tab sends that
\* token.  A request is in `requests` from startRequest until a callback of
\* the transport runs; once the server has served it, it carries the status
\* and the body of the response.

Clients == {"this", "peer"}

\* The state of a tab after the constructors (the values of Init).
Constructed ==
  [observerQueue |-> <<>>, observerSet |-> {}, actionQueue |-> <<>>,
   processingScheduled |-> FALSE, suppressedObserver |-> "null",
   drainCallbacks |-> 0,
   observers |-> [c \in FieldNames \cup {"syncStatus", "isViewSource", "isActive"} |->
                    IF c = "isViewSource" THEN <<"recompute">> ELSE <<>>],
   isViewSource |-> FALSE, isActive |-> NEEDS_RECOMPUTE,
   fields |-> [f \in FieldNames |-> 0], syncStatus |-> NOT_INITIALIZED,
   started |-> FALSE, isRequestPending |-> FALSE, isRequestInProgress |-> FALSE,
   shouldPush |-> FALSE, timers |-> 0, requests |-> <<>>,
   thrown |-> FALSE, cells |-> <<>>, lifespans |-> <<>>]

ClusterSpecInit ==
  /\ ZoneInit
  /\ AppUnused
  /\ observers = <<>>
  /\ thrown = FALSE
  /\ cells = <<>>
  /\ lifespans = <<>>
  /\ script = <<>>
  /\ xhr = <<>>
  /\ \E state \in Values : server = ServerStarted("token", state)
  /\ peers = [c \in Clients |-> [s |-> Constructed]]
  /\ note = <<>>
  /\ lastOp = <<"constructor", "this">>

\* The state of tab c.
Tab(c) == peers[c]

\* One step of tab c, which runs handler `op` and ends in state `after`;
\* the server is as after the step.
TabStep(c, op, after, sv) ==
  /\ \E s \in {after} : peers' = [peers EXCEPT ![c] = [s |-> s]]
  /\ server' = sv
  /\ lastOp' = <<op, c>>
  /\ UNCHANGED <<zoneVars, refVars, syncVars, envVars, hist, thrown, cells,
                 lifespans, script, xhr, note>>

\* A task of tab c's event loop.
TabTask(c, op, after) == TabStep(c, op, after, server)

\* The user works in the tab "this" and watches the other one.
Writers == {"this"}

\* The user acts on a tab at rest: nothing is queued on its Zone and no
\* request of it is in flight.
TabRoom(c) ==
  LET s == Tab(c).s
  IN  Len(s.requests) + Len(s.actionQueue) + Len(s.observerQueue) = 0

\* main() of tab c: DatastoreSync.start()
UStart(c) ==
  /\ ~Tab(c).s.started
  /\ TabTask(c, "start", start(Tab(c).s))

\* setValue() on a Datastore field of tab c from an event handler.
ULocalWrite(c) ==
  \E f \in FieldNames, v \in Values :
    /\ c \in Writers
    /\ Tab(c).s.started
    /\ TabRoom(c)
    /\ v # Tab(c).s.fields[f]
    /\ TabTask(c, "setValue", setField(Tab(c).s, f, v))

\* A click on the View Source link of tab c.
UToggle(c) ==
  /\ c \in Writers
  /\ Tab(c).s.started
  /\ TabRoom(c)
  /\ TabTask(c, "click", scheduleAction(Tab(c).s, "toggleViewSource"))

\* The delayed action's timer of tab c fires.
UTimerFires(c) ==
  /\ Tab(c).s.timers > 0
  /\ TabTask(c, "timer",
             scheduleAction([Tab(c).s EXCEPT !.timers = @ - 1], "startSync"))

\* The server serves request i of tab c.
UServe(c, i) ==
  LET s == Tab(c).s
      q == s.requests[i]
      r == processSync(server, POST_METHOD, q.type, "T",
                       IF q.type = PUSH_REQUEST THEN <<q.payload>> ELSE <<>>)
  IN  /\ "status" \notin DOMAIN q
      /\ TabStep(c, "processSync",
                 [s EXCEPT !.requests[i] =
                    [type |-> q.type, payload |-> q.payload,
                     status |-> r.status, body |-> r.body]],
                 r.server)

\* The server answers a request of tab c.
UServes(c) == \E i \in 1 .. Len(Tab(c).s.requests) : UServe(c, i)

\* The response to request i of tab c arrives with status 200: the success
\* callback runs.
UResponseOk(c, i) ==
  LET q == Tab(c).s.requests[i]
      s == [Tab(c).s EXCEPT !.requests = Without(@, i)]
  IN  /\ "status" \in DOMAIN q
      /\ q.status = 200
      /\ IF q.type = PULL_REQUEST
         THEN TabTask(c, "pullCallback", pullCallback(s, q.body[1]))
         ELSE TabTask(c, "pushCallback", pushCallback(s))

\* Request i of tab c times out, or the connection fails: the error callback
\* runs.
UResponseFailed(c, i) ==
  LET q == Tab(c).s.requests[i]
      s == [Tab(c).s EXCEPT !.requests = Without(@, i)]
  IN  IF q.type = PULL_REQUEST
      THEN TabTask(c, "pullErrorCallback", pullErrorCallback(s))
      ELSE TabTask(c, "pushErrorCallback", pushErrorCallback(s))

\* Zone.processQueues from position pc until it returns (r: the state and
\* the position after one callback).
RECURSIVE processQueuesFrom(_, _)
processQueuesFrom(s, pc) ==
  IF pc = "idle" THEN s
  ELSE CHOOSE after \in {processQueuesFrom(r.s, r.pc) : r \in {processQueues(s, pc)}} :
         TRUE

\* The setTimeout(() => this.processQueues()) callback of tab c runs: one
\* task of its event loop, which nothing interrupts.
UDrain(c) ==
  /\ Tab(c).s.drainCallbacks > 0
  /\ TabTask(c, "processQueues",
             processQueuesFrom([Tab(c).s EXCEPT !.drainCallbacks = @ - 1], "outer"))

\* A request of tab c completes.
UCompletes(c) ==
  \E i \in 1 .. Len(Tab(c).s.requests) : UResponseOk(c, i) \/ UResponseFailed(c, i)

ClusterNext ==
  \E c \in Clients :
    \/ UStart(c)
    \/ ULocalWrite(c)
    \/ UToggle(c)
    \/ UTimerFires(c)
    \/ UServes(c)
    \/ \E i \in 1 .. Len(Tab(c).s.requests) : UResponseOk(c, i)
    \/ \E i \in 1 .. Len(Tab(c).s.requests) : UResponseFailed(c, i)
    \/ UDrain(c)

\* The browser runs main(), every timer and every queued task, the server
\* answers every request, and every request completes (at the latest by the
\* transport's timeout).
ClusterFairness ==
  \A c \in Clients :
    /\ WF_vars(UStart(c))
    /\ WF_vars(UTimerFires(c))
    /\ WF_vars(UServes(c))
    /\ WF_vars(UCompletes(c))
    /\ WF_vars(UDrain(c))

ClusterSpec == ClusterSpecInit /\ [][ClusterNext]_vars /\ ClusterFairness

----------------------------------------------------------------------------
\* One tab, with the user writing and toggling View Source while requests
\* are in flight (RaceSpec).  The tab is peers["this"]; note
\* is the history of its local changes.

\* owed: a local change was made after start() and no PUSH has started since;
\* racing: that change was made while a request was in flight;
\* late: this step started the PUSH owed to a racing change.
RaceNoteInit == [owed |-> FALSE, racing |-> FALSE, late |-> FALSE]

\* The requests started in the step from `before` to `after` (completions
\* are steps of their own, so those are the last ones of after.requests).
StartedRequests(before, after) ==
  SubSeq(after.requests, Len(before.requests) + 1, Len(after.requests))

\* The step started a PUSH whose payload is the Datastore's snapshot.
PushStarted(op, before, after) ==
  /\ op = "processQueues"
  /\ \E i \in 1 .. Len(StartedRequests(before, after)) :
       LET q == StartedRequests(before, after)[i]
       IN  q.type = PUSH_REQUEST /\ q.payload = toJson(after.fields)

RaceNoteNext(op, before, after) ==
  [owed |->
     IF PushStarted(op, before, after) THEN FALSE
     ELSE IF op = "setValue" /\ after.fields # before.fields THEN TRUE
     ELSE note.owed,
   racing |->
     IF PushStarted(op, before, after) THEN FALSE
     ELSE IF op = "setValue" /\ after.fields # before.fields
     THEN Len(before.requests) > 0
     ELSE note.racing,
   late |-> note.racing /\ PushStarted(op, before, after)]

RaceSpecInit ==
  /\ ZoneInit
  /\ AppUnused
  /\ observers = <<>>
  /\ thrown = FALSE
  /\ cells = <<>>
  /\ lifespans = <<>>
  /\ script = <<>>
  /\ xhr = <<>>
  /\ server = <<>>
  /\ peers = [c \in {"this"} |-> [s |-> Constructed]]
  /\ note = RaceNoteInit
  /\ lastOp = <<"constructor", "this">>

\* One task of the tab's event loop, which runs handler `op` and ends in
\* state `after`.
RaceTask(op, after) ==
  /\ \E s \in {after} :
       /\ peers' = [peers EXCEPT !["this"] = [s |-> s]]
       /\ note' = RaceNoteNext(op, Tab("this").s, s)
  /\ lastOp' = <<op, "this">>
  /\ UNCHANGED <<zoneVars, refVars, syncVars, envVars, hist, thrown, cells,
                 lifespans, script, xhr, server>>

\* The user acts while the requests the act may lead to fit the bound.
RaceRoom ==
  LET s == Tab("this").s
  IN  Len(s.requests) + Len(s.actionQueue) + Len(s.observerQueue) < MaxRequests

\* main(): DatastoreSync.start()
RStart ==
  /\ ~Tab("this").s.started
  /\ RaceTask("start", start(Tab("this").s))

\* setValue() on a Datastore field from an event handler, whatever is queued
\* or in flight.
RLocalWrite ==
  \E f \in FieldNames, v \in Values :
    /\ Tab("this").s.started
    /\ RaceRoom
    /\ v # Tab("this").s.fields[f]
    /\ RaceTask("setValue", setField(Tab("this").s, f, v))

\* A click on the View Source link.
RToggle ==
  /\ Tab("this").s.started
  /\ RaceRoom
  /\ RaceTask("click", scheduleAction(Tab("this").s, "toggleViewSource"))

\* The delayed action's timer fires.
RTimerFires ==
  /\ Tab("this").s.timers > 0
  /\ RaceTask("timer",
              scheduleAction([Tab("this").s EXCEPT !.timers = @ - 1], "startSync"))

\* HttpTransport: try { callback(request.responseText); } catch (e) {
\* debugLog("Callback failed: " + e); }
callbackCaught(s) == [s EXCEPT !.thrown = FALSE]

\* A response arrives with status 200: the success callback runs.  The body
\* of a PULL's response is the toJson() of the server's Datastore, which
\* other clients may have pushed to: any values of the serializable fields.
RResponseOk ==
  \E i \in 1 .. Len(Tab("this").s.requests) :
    LET q == Tab("this").s.requests[i]
        s == [Tab("this").s EXCEPT !.requests = Without(@, i)]
    IN  \/ /\ q.type = PULL_REQUEST
           /\ \E response \in Payloads :
                RaceTask("pullCallback", callbackCaught(pullCallback(s, response)))
        \/ /\ q.type = PUSH_REQUEST
           /\ RaceTask("pushCallback", pushCallback(s))

\* A request times out, or the connection fails: the error callback runs.
RResponseFailed ==
  \E i \in 1 .. Len(Tab("this").s.requests) :
    LET q == Tab("this").s.requests[i]
        s == [Tab("this").s EXCEPT !.requests = Without(@, i)]
    IN  IF q.type = PULL_REQUEST
        THEN RaceTask("pullErrorCallback", pullErrorCallback(s))
        ELSE RaceTask("pushErrorCallback", pushErrorCallback(s))

\* The setTimeout(() => this.processQueues()) callback runs: one task of the
\* event loop, which nothing interrupts.
RDrain ==
  /\ Tab("this").s.drainCallbacks > 0
  /\ RaceTask("processQueues",
              processQueuesFrom([Tab("this").s EXCEPT !.drainCallbacks = @ - 1],
                                "outer"))

RCompletes == RResponseOk \/ RResponseFailed

RaceNext ==
  \/ RStart
  \/ RLocalWrite
  \/ RToggle
  \/ RTimerFires
  \/ RResponseOk
  \/ RResponseFailed
  \/ RDrain

\* The browser runs main(), every timer and every queued task, and every
\* request completes (at the latest by the transport's timeout).
RaceFairness ==
  /\ WF_vars(RStart)
  /\ WF_vars(RTimerFires)
  /\ WF_vars(RCompletes)
  /\ WF_vars(RDrain)

RaceSpec == RaceSpecInit /\ [][RaceNext]_vars /\ RaceFairness

----------------------------------------------------------------------------
\* The tab of RaceSpec with a server, or anything between the server and the
\* tab, that may answer a PULL with a JSON object lacking serializable
\* fields (PayloadSpec).

\* The objects that lack at least one serializable field.
UnusablePayloads ==
  UNION {[D -> Values] : D \in (SUBSET FieldNames) \ {FieldNames}}

\* A PULL's response arrives with status 200 and such a body.
RResponseUnusable ==
  \E i \in 1 .. Len(Tab("this").s.requests) :
    LET q == Tab("this").s.requests[i]
        s == [Tab("this").s EXCEPT !.requests = Without(@, i)]
    IN  /\ q.type = PULL_REQUEST
        /\ \E response \in UnusablePayloads :
             RaceTask("pullCallback.panic", callbackCaught(pullCallback(s, response)))

PayloadNext ==
  \/ RaceNext
  \/ RResponseUnusable

PayloadSpec == RaceSpecInit /\ [][PayloadNext]_vars

----------------------------------------------------------------------------
\* Properties of the sync engine and of the Zone.

ActionNames == {"startSync", "push", "increment", "reset", "toggleViewSource"}

\* Number of PUSH requests in a sequence of outstanding requests.
PushCount(rs) ==
  Cardinality({i \in 1 .. Len(rs) : rs[i].type = PUSH_REQUEST})

\* The Zone is idle and has nothing queued.
Quiescent ==
  zonePc = "idle" /\ observerQueue = <<>> /\ actionQueue = <<>>

SyncActionQueued ==
  \E i \in 1 .. Len(actionQueue) : actionQueue[i] = "startSync"

\* C1: at most one transport request (PULL or PUSH) is outstanding at any
\* time, and isRequestInProgress is true whenever a request is outstanding.
\* The code does not keep this: startSyncRequest and the action queued by
\* datastoreChanged each start a request without testing isRequestInProgress.
AtMostOneRequestOutstanding ==
  /\ Len(requests) <= 1
  /\ Len(requests) > 0 => isRequestInProgress

\* C2: a successful PULL sets every serializable field to the payload's value
\* and syncStatus to ONLINE; applying it neither queues the datastore-changed
\* observer (or anything else on the Zone) nor sets shouldPush, and starts no
\* PUSH; the suppression is lifted when pullCallback returns.
PullAppliesPayloadWithoutPush ==
  [][lastOp' = "pullCallback" =>
       /\ fields' = hist'.response
       /\ syncStatus' = ONLINE
       /\ shouldPush' = shouldPush
       /\ observerQueue' = observerQueue
       /\ observerSet' = observerSet
       /\ actionQueue' = actionQueue
       /\ PushCount(requests') = PushCount(requests)
       /\ suppressedObserver' = "null"]_vars

\* A PULL changed an observed field after start(), nothing was queued and no
\* push is owed.
PullAppliedPayload ==
  /\ lastOp = "pullCallback"
  /\ hist.pullChanged
  /\ started
  /\ observers["state"] # <<>>
  /\ fields["state"] = 1
  /\ ~shouldPush
  /\ Quiescent

\* C3: a local change of a serializable field made while no request is in
\* flight sets shouldPush (datastoreObserver leaves it true unless the PUSH
\* has started already), and the PUSH starts before the drain that processes
\* the change ends, whether or not the poll timer has fired.
LocalChangePushedInSameDrain ==
  /\ lastOp = "datastoreObserver" => shouldPush
  /\ hist.owed => processingScheduled

\* The owed PUSH started from the action queued by datastoreChanged while the
\* poll timer was still pending.
EagerPushBeforeTimer ==
  /\ hist.eager
  /\ lastOp = "push"
  /\ timers > 0
  /\ isRequestPending

\* C4: a failed PULL or PUSH leaves syncStatus OFFLINE; after a failed PUSH
\* shouldPush is true until the next request starts, and that request is not
\* a PULL.
FailureGoesOfflineAndRetriesPush ==
  /\ [](lastOp \in {"pullErrorCallback", "pushErrorCallback"} =>
          syncStatus = OFFLINE)
  /\ [](hist.pushFailed => shouldPush)
  /\ [][IssuedType(lastOp', Now, Now', PULL_REQUEST) => ~hist.pushFailed]_vars

\* The poll cycle started a PUSH as the first request after a failed PUSH.
FailedPushRetried ==
  /\ hist.retried
  /\ lastOp = "startSync"
  /\ syncStatus = OFFLINE
  /\ requests[Len(requests)].type = PUSH_REQUEST

\* C5: every completion leaves the next attempt scheduled (the retry timer,
\* or the sync action it has already queued), and with the active cell true
\* the started engine never rests with no request in flight, no retry timer
\* and nothing queued on the Zone.
ActiveEngineNeverRests ==
  /\ lastOp \in Completions =>
       isRequestPending /\ (timers > 0 \/ SyncActionQueued)
  /\ ~(/\ started
       /\ ~isViewSource
       /\ Quiescent
       /\ Len(requests) = 0
       /\ timers = 0)

\* A PULL failed while active: nothing in flight, the retry timer pending.
RetryPendingAfterFailure ==
  /\ lastOp = "pullErrorCallback"
  /\ ~isViewSource
  /\ Quiescent
  /\ Len(requests) = 0
  /\ timers = 1

\* C6: startSyncRequest run while the active cell is false starts no request,
\* schedules no timer and leaves isRequestPending false; after that no
\* request starts until isActiveToggled has scheduled a sync attempt.
\* The first part holds of the code; the second does not: the action queued
\* by datastoreChanged starts a PUSH while inactive.
InactiveSyncResumesOnlyByToggle ==
  [][/\ (lastOp' = "startSync" /\ isViewSource) =>
          /\ requests' = requests
          /\ timers' = timers
          /\ ~isRequestPending'
     /\ Issued(lastOp', Now, Now') => ~hist.rested]_vars

\* C7: when the active cell becomes true while nothing is in flight and no
\* retry timer is pending, startSyncRequest runs before the drain that
\* processes the toggle ends; when a request is in flight or a retry timer
\* is pending, isActiveToggled queues nothing.
\* The second part fails when two requests overlap: after one of them
\* completes isRequestInProgress is false with a request still in flight.
ToggleSchedulesAtMostOneAttempt ==
  /\ [](hist.toggledIdle => processingScheduled)
  /\ [][(lastOp' = "isActiveToggled" /\ (Len(requests) > 0 \/ timers > 0)) =>
          actionQueue' = actionQueue]_vars

\* C8: after start() with the active cell true, while the cell stays true
\* and no local change is made, until the first request completes: at most
\* one request has been issued, and it is a PULL.
FirstRequestIsOnePull ==
  hist.c8 = "watching" =>
    /\ Len(requests) <= 1
    /\ \A i \in 1 .. Len(requests) : requests[i].type = PULL_REQUEST

\* The first PULL is in flight and the drain that started it has ended.
FirstPullInFlight ==
  /\ hist.c8 = "watching"
  /\ Len(requests) = 1
  /\ requests[1].type = PULL_REQUEST
  /\ Quiescent
  /\ ~processingScheduled

\* C9: in a drain no action starts while the observer queue is non-empty,
\* and the drain ends only when both queues are empty.
ObserversDrainBeforeActions ==
  [][/\ lastOp' \in ActionNames => observerQueue = <<>>
     /\ (zonePc # "idle" /\ zonePc' = "idle") =>
          (observerQueue' = <<>> /\ actionQueue' = <<>>)]_vars

\* An observer queued by an action (isActiveToggled, after the toggle) ran
\* in the drain while another action was still waiting.
ObserverRanAheadOfQueuedAction ==
  /\ lastOp = "isActiveToggled"
  /\ zonePc = "observers"
  /\ actionQueue # <<>>

\* C10: after several changes of a Boxed cell before the Zone drains, the
\* observer registered on it runs exactly once in that drain: never a second
\* time, and the drain does not end before it has run.
ObserverRunsOncePerDrain ==
  /\ hist.c10 # "drain2"
  /\ hist.c10 = "drain0" => zonePc # "idle"

\* The drain that followed several changes has ended; the observer ran once.
SeveralChangesOneNotification ==
  /\ hist.c10 = "drain1"
  /\ zonePc = "idle"
  /\ ~processingScheduled

----------------------------------------------------------------------------
\* Properties of the Zone under any caller (ZoneSpec).

Elements(seq) == {seq[i] : i \in 1 .. Len(seq)}

NoDuplicates(seq) ==
  \A i, j \in 1 .. Len(seq) : seq[i] = seq[j] => i = j

IsPrefix(a, b) ==
  Len(a) <= Len(b) /\ SubSeq(b, 1, Len(a)) = a

\* The step ran an observer / an action of the caller from the queue.
RanObserver == zonePc = "observers" /\ lastOp' \in ZObservers
RanAction == zonePc = "actions" /\ lastOp' \in ZActions

\* C11, as stated: within one drain no observer runs a second time before
\* an action runs, even if it is scheduled again during the drain.
\* processQueues takes the observer out of observerSet once it has run, so
\* an observer scheduled again by a later observer runs again.
ObserverRunsOnceBeforeActions ==
  ~note.rerun

\* C11, amended: within one drain every queued observer runs before any
\* action runs, once for each time it is queued: no action starts while an
\* observer is queued, an observer is never queued twice at a time (a
\* schedule request collapses while it is queued), every queued observer is
\* in observerSet, and the observer that runs is the oldest queued one.
QueuedObserversRunBeforeActions ==
  /\ [](NoDuplicates(observerQueue) /\ Elements(observerQueue) \subseteq observerSet)
  /\ [][RanAction => observerQueue = <<>>]_vars
  /\ [][RanObserver => (observerQueue # <<>> /\ lastOp' = Head(observerQueue))]_vars

\* An observer ran a second time in the drain while an action was waiting.
ObserverRanAgainBeforeAction ==
  /\ note.rerun
  /\ lastOp \in ZObservers
  /\ zonePc = "observers"
  /\ actionQueue # <<>>

\* C17: processingScheduled is true while anything is queued, while the
\* drain callback is outstanding and while processQueues runs; it falls only
\* when processQueues leaves its loop with both queues empty; at most one
\* drain callback is outstanding; with the flag false both queues and
\* observerSet are empty.
ProcessingScheduledCoversDrain ==
  /\ [](drainCallbacks <= 1)
  /\ []((drainCallbacks > 0 \/ zonePc # "idle" \/ observerQueue # <<>>
           \/ actionQueue # <<>>) => processingScheduled)
  /\ [](~processingScheduled => observerSet = {})
  /\ [][(~processingScheduled /\ processingScheduled') =>
          (drainCallbacks = 0 /\ drainCallbacks' = 1)]_vars
  /\ [][(processingScheduled /\ ~processingScheduled') =>
          (zonePc = "outer" /\ zonePc' = "idle")]_vars

\* Two callbacks were scheduled while idle: one drain callback is outstanding.
OneDrainForSeveralRequests ==
  /\ zonePc = "idle"
  /\ drainCallbacks = 1
  /\ processingScheduled
  /\ observerQueue # <<>>
  /\ actionQueue # <<>>

\* C18: actions run in the order they were scheduled, each once: the action
\* that runs is the oldest queued one and leaves the queue, every other step
\* only appends to the queue; and no action runs while an observer (one that
\* the previous action enqueued included) is queued.
ActionsRunFifo ==
  [][/\ RanAction =>
          /\ actionQueue # <<>>
          /\ lastOp' = Head(actionQueue)
          /\ IsPrefix(Tail(actionQueue), actionQueue')
          /\ observerQueue = <<>>
     /\ ~RanAction => IsPrefix(actionQueue, actionQueue')]_vars

\* An action ran and enqueued an observer while another action waits.
ActionEnqueuedObserverAheadOfNext ==
  /\ lastOp \in ZActions
  /\ zonePc = "actions"
  /\ observerQueue # <<>>
  /\ actionQueue # <<>>

\* C19: internalSuppressObserver with the slot taken, and
\* internalUnsuppressObserver with another observer than the suppressed one,
\* panic and leave the slot as it was; a schedule request for the suppressed
\* observer queues nothing, and lifting the suppression queues nothing.
SuppressionSlotIsSingle ==
  /\ [](suppressedObserver \in ZObservers \cup {"null"})
  /\ [][(lastOp' = "internalSuppressObserver" /\ suppressedObserver # "null") =>
          (thrown' /\ suppressedObserver' = suppressedObserver)]_vars
  /\ [][(lastOp' = "internalUnsuppressObserver"
           /\ suppressedObserver # note'.target) =>
          (thrown' /\ suppressedObserver' = suppressedObserver)]_vars
  /\ [][lastOp' = "internalUnsuppressObserver" =>
          (observerQueue' = observerQueue /\ observerSet' = observerSet)]_vars
  /\ [][\A o \in ZObservers :
          (o = suppressedObserver /\ o = suppressedObserver'
             /\ o \notin Elements(observerQueue)) =>
          o \notin Elements(observerQueue')]_vars

\* A second observer was refused while the first is suppressed.
SecondSuppressionRefused ==
  /\ lastOp = "internalSuppressObserver"
  /\ thrown
  /\ suppressedObserver \in ZObservers
  /\ note.target # suppressedObserver

----------------------------------------------------------------------------
\* Properties of the cells under any caller (CellSpec).

Recomputed == lastOp' \in {"doRecompute", "c.recompute"}

\* C12: setValue on a Boxed cell with the value it holds leaves the cell as
\* it is, schedules no observer (and no drain) and does not panic.
SetSameValueIsNoOp ==
  [][(lastOp' = "setValue" /\ note'.target = cells["b"].value) =>
       /\ cells' = cells
       /\ observerQueue' = observerQueue
       /\ observerSet' = observerSet
       /\ processingScheduled' = processingScheduled
       /\ drainCallbacks' = drainCallbacks
       /\ ~thrown']_vars

\* b was set to 1 and its observers have run; setValue(b, 1) then did nothing.
SameValueSetAgain ==
  /\ lastOp = "setValue"
  /\ note.target = JsNumber(1)
  /\ cells["b"].value = JsNumber(1)
  /\ observerQueue = <<>>
  /\ ~processingScheduled

\* C15: getValue on a Computed cell that holds a cached value keeps it
\* without computing; on the sentinel it stores what compute returns (unless
\* it panics); recompute on a cached value stores the sentinel and leaves
\* every observer of the cell scheduled; recompute on the sentinel changes
\* no cell and schedules no observer.
ComputedCachesUntilInvalidated ==
  [][/\ (lastOp' = "getValue" /\ cells["c"].value # NeedsRecompute) =>
          (cells' = cells /\ ~thrown')
     /\ (lastOp' = "getValue" /\ cells["c"].value = NeedsRecompute /\ ~thrown') =>
          cells'["c"].value = note'.target
     /\ (Recomputed /\ cells["c"].value # NeedsRecompute) =>
          /\ cells'["c"].value = NeedsRecompute
          /\ \A o \in Elements(observers["c"]) :
               o \in Elements(observerQueue') /\ o \in observerSet'
     /\ (Recomputed /\ cells["c"].value = NeedsRecompute) =>
          /\ cells' = cells
          /\ Elements(observerQueue') \subseteq Elements(observerQueue)
          /\ observerSet' \subseteq observerSet]_vars

\* getValue returned the cached value although compute would return another.
CachedValueServed ==
  /\ lastOp = "getValue"
  /\ cells["c"].value = JsNumber(0)
  /\ note.target = JsNumber(1)
  /\ ~thrown

\* C16: setValue with a value that fails the cell's type predicate panics and
\* leaves the cell and the observer queue unchanged; a compute result that
\* fails the predicate panics and is not cached; no cell holds an ill-typed
\* value.  The code does not panic on an ill-typed value that is == to the
\* current one (setValue(b, "1") while b holds 1): it returns silently.
IllTypedValueIsFatal ==
  /\ [](isInstance(cells["b"].type, cells["b"].value))
  /\ [](cells["c"].value # NeedsRecompute =>
          isInstance(cells["c"].type, cells["c"].value))
  /\ [][(lastOp' = "setValue" /\ ~isInstance(cells["b"].type, note'.target)) =>
          (thrown' /\ cells' = cells /\ observerQueue' = observerQueue)]_vars
  /\ [][(lastOp' = "getValue" /\ cells["c"].value = NeedsRecompute
           /\ ~isInstance(cells["c"].type, note'.target)) =>
          (thrown' /\ cells' = cells)]_vars

----------------------------------------------------------------------------
\* Properties of the dependency graph (GraphSpec).

\* The cells a cell depends on directly.
Successors(cs, n) == Elements(cs[n].dependsOnReferences)

\* The least set that holds S and the successors of its members.
RECURSIVE Closure(_, _)
Closure(cs, S) ==
  LET N == S \cup UNION {Successors(cs, n) : n \in S}
  IN  IF N = S THEN S ELSE Closure(cs, N)

\* x is reached from y along one or more recorded edges.
Reaches(cs, y, x) == x \in Closure(cs, Successors(cs, y))

HasEdge(cs, x, y) == y \in Successors(cs, x)

\* C13: the recorded dependency edges never form a cycle; a dependsOn call
\* that would close one (the cell itself, or a cell that reaches it) panics
\* and records nothing.
DependencyGraphAcyclic ==
  /\ [](\A n \in DOMAIN cells : ~Reaches(cells, n, n))
  /\ [][(lastOp' = "dependsOn"
           /\ note'.target[2] \in DOMAIN cells
           /\ (\/ note'.target[2] = note'.target[1]
               \/ Reaches(cells, note'.target[2], note'.target[1]))) =>
          (thrown' /\ cells' = cells)]_vars

\* With A -> B -> C recorded, C.dependsOn(A) was refused.
CycleRefused ==
  /\ lastOp = "dependsOn"
  /\ note.target = <<"C", "A">>
  /\ thrown
  /\ HasEdge(cells, "A", "B")
  /\ HasEdge(cells, "B", "C")

\* C14: x.introducesCycle(y) is true exactly when y is x or x is reached
\* from y along the recorded edges.
IntroducesCycleIsReachability ==
  lastOp = "introducesCycle" =>
    (note.target[3] <=>
       (\/ note.target[2] = note.target[1]
        \/ Reaches(cells, note.target[2], note.target[1])))

\* The case of the tests: with A -> B and B -> C, C.introducesCycle(A) is true.
TransitiveCycleFound ==
  /\ lastOp = "introducesCycle"
  /\ note.target = <<"C", "A", TRUE>>
  /\ HasEdge(cells, "A", "B")
  /\ HasEdge(cells, "B", "C")
  /\ ~HasEdge(cells, "A", "C")
  /\ introducesCycle(cells, "A", "A")

----------------------------------------------------------------------------
\* Properties of the transport (TransportSpec).

\* C20: for each startRequest call the success and error callbacks together
\* are invoked at most once, whatever the order of the response and the
\* timeout; when the timeout comes first errorCallback is invoked and the
\* later readystatechange is ignored.
\* The code invokes errorCallback a second time, from its catch clause, when
\* errorCallback throws on a failed response.
CallbacksInvokedAtMostOnce ==
  /\ [](\A i \in 1 .. Len(xhr) :
          xhr[i].callbackCalls + xhr[i].errorCallbackCalls <= 1)
  /\ [][\A i \in 1 .. Len(xhr) :
          (lastOp' = "timeout" /\ note'.target = i /\ xhr[i].active) =>
            /\ xhr'[i].errorCallbackCalls = xhr[i].errorCallbackCalls + 1
            /\ xhr'[i].callbackCalls = xhr[i].callbackCalls
            /\ ~xhr'[i].active]_vars
  /\ [][\A i \in 1 .. Len(xhr) :
          (lastOp' = "response" /\ note'.target = i /\ ~xhr[i].active) =>
            /\ xhr'[i].errorCallbackCalls = xhr[i].errorCallbackCalls
            /\ xhr'[i].callbackCalls = xhr[i].callbackCalls]_vars

----------------------------------------------------------------------------
\* Properties of Lifespans (LifeSpec).

\* The Zone is idle with nothing queued and no drain callback outstanding.
Drained ==
  /\ zonePc = "idle"
  /\ observerQueue = <<>>
  /\ actionQueue = <<>>
  /\ ~processingScheduled

\* C21: finish() runs no release callback itself (no observer is released
\* and no sub-span's list is taken by the call): it puts every registered
\* callback on the Zone's observer queue, in order, and empties the list;
\* finish() on an empty list, as a second finish() is, changes nothing in
\* the Zone; no release callback runs twice.
FinishSchedulesReleaseOnce ==
  /\ [](\A c \in LifeCallbacks : note.runs[c] <= 1)
  /\ [][lastOp' = "finish" =>
          LET lifespan == note'.target
              callbacks == lifespans[lifespan]
          IN  /\ observers' = observers
              /\ \A x \in DOMAIN lifespans \ {lifespan} : lifespans'[x] = lifespans[x]
              /\ lifespans'[lifespan] = <<>>
              /\ observerQueue' = observerQueue \o callbacks
              /\ observerSet' = observerSet \cup Elements(callbacks)
              /\ callbacks = <<>> => UNCHANGED zoneVars]_vars

\* finish() was called again on a Lifespan whose callback had run.
SecondFinishAfterRelease ==
  /\ lastOp = "finish"
  /\ note.again
  /\ \E c \in UserReleases : note.reg[c] = note.target /\ note.runs[c] = 1
  /\ Drained

ReleasedObserverNotScheduled ==
  /\ [][lastOp' = "setValue" =>
          \A o \in ZObservers :
            (/\ ReleaseCallback[o] \in note.due
             /\ note.runs[ReleaseCallback[o]] >= 1 \/ Drained)
              => (o \in observerSet' => o \in observerSet)]_vars
  /\ [][(lastOp' = "finish" \/ lastOp' \in {ReleaseCallback[o] : o \in ZObservers}) =>
          \A o \in ZObservers :
            o \in Elements(observerQueue) => o \in Elements(observerQueue')]_vars

\* A change of b scheduled o2 and not the released o1.
ChangeAfterReleaseSchedulesOthers ==
  /\ lastOp = "setValue"
  /\ note.runs[ReleaseCallback["o1"]] = 1
  /\ "o2" \in observerSet
  /\ "o1" \notin observerSet

----------------------------------------------------------------------------
\* Properties of the Datastore's JSON form (JsonSpec).

\* The settable cells of boolean, string or integer type of the schema.
SerializableCells == {"flag", "title", "state"}

\* C24: fromJson(toJson()) on one Datastore changes no cell; applying A's
\* toJson to B (or B's to A) makes the target's boolean, string and integer
\* Boxed cells equal to the source's and changes no other cell of either;
\* toJson has exactly those cells as properties: not the enum cell, the
\* constant, the computed cell or syncStatus.
JsonRoundTripKeepsFields ==
  /\ [](\A d \in Datastores :
          DOMAIN Datastore_toJson(Now, d, SchemaMembers) = SerializableCells)
  /\ [][lastOp' = "roundTrip" =>
          cells' = cells /\ ~thrown' /\ observerQueue' = observerQueue]_vars
  /\ [][lastOp' = "apply" =>
          LET datastore == note'.target[1]
              another == note'.target[2]
          IN  /\ ~thrown'
              /\ \A c \in SchemaCells :
                   /\ cells'[<<datastore, c>>] = cells[<<datastore, c>>]
                   /\ IF c \in SerializableCells
                      THEN cells'[<<another, c>>].value = cells[<<datastore, c>>].value
                      ELSE cells'[<<another, c>>] = cells[<<another, c>>]]_vars

\* A's toJson was applied to B: B's observer was scheduled, the serializable
\* cells agree and the enum cells still differ.
AppliedSnapshotChangedTarget ==
  /\ lastOp = "apply"
  /\ note.target = <<"A", "B">>
  /\ "o1" \in observerSet
  /\ \A c \in SerializableCells : cells[<<"A", c>>].value = cells[<<"B", c>>].value
  /\ cells[<<"A", "mode">>].value # cells[<<"B", "mode">>].value

----------------------------------------------------------------------------
\* Properties of the sync engine (Spec), continued.

\* C25: syncStatus starts as NOT_INITIALIZED and changes only when a request
\* completes: a success callback leaves it ONLINE, an error callback (another
\* status, or the timeout) leaves it OFFLINE, and it never becomes
\* NOT_INITIALIZED again; so it tells how the last completed request ended.
SyncStatusTellsLastCompletion ==
  /\ [](lastOp = "constructor" => syncStatus = NOT_INITIALIZED)
  /\ [][syncStatus' # syncStatus => lastOp' \in Completions]_vars
  /\ [][lastOp' \in {"pullCallback", "pushCallback"} => syncStatus' = ONLINE]_vars
  /\ [][lastOp' \in {"pullErrorCallback", "pushErrorCallback"} =>
          syncStatus' = OFFLINE]_vars
  /\ [][syncStatus' = NOT_INITIALIZED => syncStatus = NOT_INITIALIZED]_vars

\* A PUSH has just failed: syncStatus is OFFLINE.
OfflineAfterFailedPush ==
  /\ lastOp = "pushErrorCallback"
  /\ syncStatus = OFFLINE
  /\ started

\* C30: no step starts a request while the active cell is false (View Source
\* is shown), also after a local write made while it is false.
\* The code's datastoreChanged queues startPushRequest whatever the cell says.
NoRequestStartsWhileInactive ==
  [][Issued(lastOp', Now, Now') => ~isViewSource']_vars

----------------------------------------------------------------------------
\* Properties of the server (ServerSpec).

\* C27: the sync endpoint answers a request that is not a POST with 405,
\* otherwise one whose token is not the server's shared token with 403,
\* otherwise one of an unknown kind with 400, and in these cases leaves the
\* server's Datastore as it is; a server started without a secrets file has
\* no token a request could match.
\* The code skips the token test when it has loaded no SYNC_TOKEN.
ServerRejectsWithoutChange ==
  [][lastOp' = "processSync" =>
       LET q == note'.target
           tokenOk == truthy(server.syncToken) /\ q.token = server.syncToken
       IN  /\ q.method # POST_METHOD => q.status = 405 /\ server' = server
           /\ (q.method = POST_METHOD /\ ~tokenOk) =>
                q.status = 403 /\ server' = server
           /\ (q.method = POST_METHOD /\ tokenOk
                 /\ q.request \notin {PULL_REQUEST, PUSH_REQUEST}) =>
                q.status = 400 /\ server' = server]_vars

----------------------------------------------------------------------------
\* Properties of enum types (EnumSpec).

\* The names a type was declared with.
DeclaredNames(type) ==
  IF type = "SyncStatus" THEN SyncStatusNames ELSE note.target.values

\* C29: for every name listed in the call, the type's property of that name
\* is a value object with that name and with the name's 0-based position as
\* index, and the objects of different names differ; isInstance is true of
\* exactly these objects, not of the name as a string nor of a look-alike
\* object; SyncStatus.ONLINE has index 3.
EnumValuesFollowPositions ==
  /\ [](\A type \in DOMAIN cells :
          LET names == DeclaredNames(type)
              T == cells[type]
          IN  /\ DOMAIN T.members = {names[i] : i \in 1 .. Len(names)}
              /\ \A i \in 1 .. Len(names) :
                   /\ T.members[names[i]].name = names[i]
                   /\ T.members[names[i]].index = i - 1
              /\ \A i, j \in 1 .. Len(names) :
                   T.members[names[i]] = T.members[names[j]] => i = j)
  /\ [](cells["SyncStatus"].members["ONLINE"].index = 3)
  /\ [][lastOp' = "isInstance" =>
          LET q == note'.target
              T == cells[q.type]
          IN  /\ q.result <=> \E n \in DOMAIN T.members : T.members[n] = q.value
              /\ q.value.t = "string" => ~q.result]_vars

\* TestEnum was declared with three names; isInstance accepted its third
\* value, whose index is 2.
ThirdEnumValueAccepted ==
  /\ lastOp = "isInstance"
  /\ note.target.type = "TestEnum"
  /\ Len(note.target.values) = 3
  /\ note.target.result
  /\ note.target.value = cells["TestEnum"].members[note.target.values[3]]
  /\ note.target.value.index = 2

----------------------------------------------------------------------------
\* Properties of requests to sync (GateSpec).

\* How often a call of sync called the function f.
TimesCalled(calls, f) == Cardinality({i \in 1 .. Len(calls) : calls[i] = f})

\* The Boxed cells with a sync function that the cell was joined from: those
\* its recompute callback observes.
JoinedFrom(cell) ==
  {b \in DOMAIN cells :
     /\ cells[b].kind = "Boxed"
     /\ cells[b].syncFunction # "none"
     /\ \E i \in 1 .. Len(observers[b]) : observers[b][i] = RecomputeCallback[cell]}

\* C28: sync on a Boxed cell with a sync function calls that function once
\* at priority NORMAL, HIGH or HIGHEST and not at all at a lower priority;
\* sync at such a priority on a cell made by stringJoin from a Boxed cell with
\* a sync function calls that function.
SyncFiresFromNormal ==
  [][lastOp' = "sync" =>
       LET q == note'.target
           fires == q.priority \in {"NORMAL", "HIGH", "HIGHEST"}
       IN  /\ (cells[q.cell].kind = "Boxed" /\ cells[q.cell].syncFunction # "none") =>
                /\ TimesCalled(q.calls, cells[q.cell].syncFunction) = IF fires THEN 1 ELSE 0
                /\ Len(q.calls) = IF fires THEN 1 ELSE 0
           /\ cells[q.cell].kind = "ComputableReference" =>
                \A b \in JoinedFrom(q.cell) :
                  /\ fires => TimesCalled(q.calls, cells[b].syncFunction) >= 1
                  /\ ~fires => q.calls = <<>>]_vars

\* sync(joined, Priority.HIGH, ...) on joined = stringJoin(boxed, "bar")
\* called boxed's sync function.
SyncOnJoinedReachedBoxed ==
  /\ lastOp = "sync"
  /\ note.target.cell = "joined"
  /\ note.target.priority = "HIGH"
  /\ note.target.calls = <<"boxedSync">>
  /\ cells["joined"].dependsOnReferences = <<"boxed">>

----------------------------------------------------------------------------
\* Properties of the tabs and the server (ClusterSpec).

\* The step is a local write, a failed request.
WriteStep == lastOp'[1] = "setValue"
FailureStep == lastOp'[1] \in {"pullErrorCallback", "pushErrorCallback"}

\* Tab c is syncing and its View Source is off.
IsActiveTab(c) == Tab(c).s.started /\ ~Tab(c).s.isViewSource

\* The serializable fields of tab c are those of the server.
InSync(c) == toJson(Tab(c).s.fields) = toJson(server.fields)

\* C26: if from some point on no local write is made and no request fails,
\* then every tab that stays active has, from some point on, the server's
\* values in its serializable fields.
ActiveTabsConverge ==
  \A c \in Clients :
    (<>[][~WriteStep]_vars /\ <>[][~FailureStep]_vars /\ <>[]IsActiveTab(c))
      => <>[]InSync(c)

\* The peer tab has pulled a value written in this tab: both tabs hold it,
\* as does the server, and it is not the value they started with.
PeerPulledLocalWrite ==
  /\ lastOp = <<"pullCallback", "peer">>
  /\ peers["this"].s.fields["state"] = 1
  /\ peers["peer"].s.fields["state"] = 1
  /\ server.fields["state"] = 1
  /\ IsActiveTab("this") /\ IsActiveTab("peer")

----------------------------------------------------------------------------
\* Local writes and pulled values (Spec).

\* C31: a value written locally to a serializable field is never replaced by
\* a pulled server value before a PUSH carrying that value has been started:
\* no pullCallback changes a field while a local change is not pushed yet.
LocalWriteNotReplacedBeforePush == ~hist.lost

----------------------------------------------------------------------------
\* Local changes racing with requests (RaceSpec).

\* The active cell (notOp(isViewSource)) of the tab is true.
ActiveCell == ~Tab("this").s.isViewSource

\* C32: each local change to a serializable field after which the active cell
\* stays true is eventually followed by the start of a PUSH whose payload is
\* the Datastore's snapshot at that time, provided every request completes
\* (RaceFairness); also when the change is made while a request is in flight.
LocalChangeEventuallyPushed ==
  []((note.owed /\ []ActiveCell) => <>~note.owed)

\* The PUSH owed to a change made while a request was in flight has started.
RacingChangePushed ==
  /\ note.late
  /\ lastOp = <<"processQueues", "this">>
  /\ ActiveCell

----------------------------------------------------------------------------
\* PULL responses that cannot be applied (PayloadSpec).

\* The tab has nothing queued on its Zone, no drain outstanding, no request
\* in flight and no retry timer.
TabAtRest ==
  LET s == Tab("this").s
  IN  /\ s.observerQueue = <<>> /\ s.actionQueue = <<>>
      /\ s.drainCallbacks = 0
      /\ Len(s.requests) = 0
      /\ s.timers = 0

\* C33: the Zone's suppression slot is empty whenever pullCallback is not
\* executing, and the started sync engine keeps issuing requests while the
\* active cell is true (it never rests with nothing queued, in flight or
\* timed), also after a PULL response whose payload cannot be applied.
SlotEmptyAndEngineRunning ==
  /\ Tab("this").s.suppressedObserver = "null"
  /\ ~(Tab("this").s.started /\ ActiveCell /\ TabAtRest)

----------------------------------------------------------------------------
\* Notifications of a Boxed cell's observers (NotifySpec).

\* C34: whenever a Zone drain ends, every observer registered on the Boxed
\* cell has been invoked at least once after the cell's most recent value
\* change, including a change made while that observer was running.
ObserversSawLastChange ==
  (zonePc = "idle" /\ ~processingScheduled) => note.stale = {}

----------------------------------------------------------------------------
\* Callbacks that throw (ZoneSpec).

\* The observers in the observer queue.
QueuedObservers == {observerQueue[i] : i \in 1 .. Len(observerQueue)}

\* C35: also after an observer or action has thrown during a drain, what is
\* scheduled is executed by a later drain: between tasks processingScheduled
\* is true only with a drain callback outstanding (it does not remain true
\* forever), and the de-duplication set holds no observer that is not queued.
ThrowLeavesZoneUsable ==
  zonePc = "idle" =>
    /\ processingScheduled => drainCallbacks > 0
    /\ observerSet = QueuedObservers

----------------------------------------------------------------------------
\* Cached values of computed cells (ComputeSpec).

\* No drain is scheduled or running.
ZoneIdle == zonePc = "idle" /\ ~processingScheduled

\* C36: whenever the Zone is idle, every computed cell wired to its
\* dependencies with observeAndDependsOn (notOp, andOp, stringJoin, a chain
\* of them) holds the needs-recompute sentinel or the value its compute
\* function returns for the current values of its dependencies.
CachedValuesAreCurrent ==
  ZoneIdle =>
    \A c \in ComputedCells \cap DOMAIN cells :
      \/ cells[c].value = NeedsRecompute
      \/ cells[c].value = compute(Now, c).v

\* The whole chain is cached again after a change of x invalidated it: j
\* holds the join of andOp's value for the new x.
ChainCachedAfterChange ==
  /\ ZoneIdle
  /\ lastOp = "getValue"
  /\ cells["x"].value = JsBoolean(0)
  /\ cells["n"].value = JsBoolean(1)
  /\ cells["a"].value = JsBoolean(1)
  /\ cells["j"].value = JsString(<<"true", "bar">>)

----------------------------------------------------------------------------
\* Invalidation and wiring of ComputableReferences (WireSpec).

\* C37: a drain started by a setValue on the Boxed cell, all observers being
\* invalidation callbacks of computed cells, terminates, and in it the
\* observers of each computed cell are triggered at most once, even when the
\* observer registrations form a cycle.
DrainInvalidatesOnce ==
  /\ [](\A c \in Wired : note.triggered[c] <= 1)
  /\ (zonePc # "idle") ~> (zonePc = "idle")

\* A drain has ended in which A and B, each observing the other, were both
\* invalidated once.
CycleInvalidatedOnce ==
  /\ zonePc = "idle"
  /\ ~processingScheduled
  /\ Observes("A", "B") /\ Observes("B", "A")
  /\ Observes("A", "D")
  /\ note.triggered = [c \in Wired |-> 1]

\* C38: when observeAndDependsOn is rejected because the dependency would
\* create a cycle, neither a dependency edge nor an observer registration
\* remains: the cells and their observer lists are as before the call.
RejectedWiringLeavesGraph ==
  [][(lastOp' = "observeAndDependsOn" /\ note'.rejected) =>
       (cells' = cells /\ observers' = observers)]_vars

----------------------------------------------------------------------------
\* The retry timer (Spec).

\* C39 as stated: isRequestPending is true exactly when one delayed startSync
\* timer is outstanding, and never more than one such timer is outstanding.
PendingIffOneTimer ==
  /\ timers <= 1
  /\ isRequestPending <=> timers = 1

\* C39, amended: isRequestPending is true exactly when one delayed startSync
\* timer is outstanding or has fired and the startSync action it queued has
\* not run yet; never more than one such timer is outstanding.
PendingIffTimerOrItsAction ==
  /\ timers <= 1
  /\ isRequestPending <=> (timers = 1 \/ hist.fired)
  /\ hist.fired => (timers = 0 /\ SyncActionQueued)

\* The timer has fired and its startSync action waits for the drain.
TimerFiredActionQueued ==
  /\ lastOp = "timer"
  /\ hist.fired
  /\ timers = 0
  /\ isRequestPending
  /\ SyncActionQueued

----------------------------------------------------------------------------
\* The release callbacks of observers (ObserveSpec).

ObserverReleases == {ReleaseCallback[o] : o \in ZObservers}

\* C40: the function observe registers with the Lifespan never reaches its
\* panic: the Zone runs each of them at most once, and when it runs one the
\* observer is in the cell's list before the run, is not in it after the
\* run, and nothing was thrown.
ReleaseFindsItsObserver ==
  /\ [](\A c \in ObserverReleases : note.runs[c] <= 1)
  /\ [][\A o \in ZObservers :
          lastOp' = ReleaseCallback[o] =>
            /\ o \in Elements(observers["b"])
            /\ o \notin Elements(observers'["b"])
            /\ ~thrown']_vars

\* The release callback of o1 has run and took o1 off the list of b, after
\* the Lifespan it was registered with was asked to finish twice.
ReleaseRanOnceAfterRepeatedFinish ==
  /\ lastOp = "o1.release"
  /\ note.runs["o1.release"] = 1
  /\ note.again
  /\ note.reg["o1.release"] \in note.finished
  /\ "o1" \notin Elements(observers["b"])
  /\ ~thrown

====
